---- MODULE Spec2Model ----
(***************************************************************************)
(* PassGFW firewall detector (zdypro888/passgfw).                          *)
(*                                                                         *)
(* The detector of src/clients/legacy-cpp/firewall_detector.cpp, driven    *)
(* through the C bindings of src/client/passgfw.cpp, as a state machine:   *)
(* the call stack of the blocking GetFinalServer call is explicit, every   *)
(* network call and every sleep is an event of the step that performs it.  *)
(* Strings are sequences of one-character strings, positions are 0-based   *)
(* as in std::string.                                                      *)
(***************************************************************************)
EXTENDS Integers, Sequences, FiniteSets, TLC

\* ------------------------------------------------------------------ bounds

\* Longest EndpointSet the host builds with passgfw_add_url / set_url_list.
MaxURLs == 2
\* Number of distinct values the random generator cycles through.
NonceSpace == 2
\* Events of one get_final_server call that the observer keeps.
MaxTrace == 8
\* Largest output buffer the host passes to the buffer-based bindings.
MaxBuf == 3
\* Longest text (list content, URL), in tokens, given to the pure functions.
MaxTokens == 4
\* How far from 0 and from MAX_CLIENT_DATA_SIZE the length of client data is
\* taken.
MaxOver == 2
\* Calls the host's own thread makes without waiting for the worker thread.
MaxCalls == 2
\* Lists nested one in another that a detector with no depth check is
\* followed through.
MaxNesting == 7

\* ------------------------------------------------------- program constants

\* Config::MAX_RETRIES
MAX_RETRIES == 3
\* Config::RETRY_DELAY_MS
RETRY_DELAY_MS == 1000
\* Config::URL_INTERVAL (milliseconds)
URL_INTERVAL == 500
\* Config::RETRY_INTERVAL (seconds)
RETRY_INTERVAL == 2
\* Config::MAX_LIST_RECURSION_DEPTH
MAX_LIST_RECURSION_DEPTH == 5
\* Config::MAX_CLIENT_DATA_SIZE
MAX_CLIENT_DATA_SIZE == 200

\* ------------------------------------------------------------ std::string

\* std::string::npos
NPOS == -1

MinOf(a, b) == IF a <= b THEN a ELSE b

\* s.substr(pos, n): at most n characters from 0-based position pos.
Substr(s, pos, n) == SubSeq(s, pos + 1, MinOf(pos + n, Len(s)))

\* s.substr(pos): everything from 0-based position pos.
SubstrFrom(s, pos) == SubSeq(s, pos + 1, Len(s))

\* Whether pat occurs in s at 0-based position pos.
MatchAt(s, pat, pos) ==
    /\ pos >= 0
    /\ pos + Len(pat) <= Len(s)
    /\ SubSeq(s, pos + 1, pos + Len(pat)) = pat

\* s.find(pat, from): the first position >= from where pat occurs, or npos.
Find(s, pat, from) ==
    LET hits == {p \in from..(Len(s) - Len(pat)) : MatchAt(s, pat, p)}
    IN  IF hits = {} THEN NPOS
        ELSE CHOOSE p \in hits : \A q \in hits : p <= q

\* s.find_first_not_of(chars)
FindFirstNotOf(s, chars) ==
    LET hits == {p \in 0..(Len(s) - 1) : s[p + 1] \notin chars}
    IN  IF hits = {} THEN NPOS
        ELSE CHOOSE p \in hits : \A q \in hits : p <= q

\* s.find_last_not_of(chars)
FindLastNotOf(s, chars) ==
    LET hits == {p \in 0..(Len(s) - 1) : s[p + 1] \notin chars}
    IN  IF hits = {} THEN NPOS
        ELSE CHOOSE p \in hits : \A q \in hits : p >= q

\* The characters of " \t\r\n".
Whitespace == {" ", "\t", "\r", "\n"}

\* "http://" and "https://"
HTTP == <<"h", "t", "t", "p", ":", "/", "/">>
HTTPS == <<"h", "t", "t", "p", "s", ":", "/", "/">>
\* "://"
SchemeDelim == <<":", "/", "/">>
\* "*GFW*"
marker == <<"*", "G", "F", "W", "*">>

\* url.find("http://") == 0 || url.find("https://") == 0
IsHttpURL(url) == Find(url, HTTP, 0) = 0 \/ Find(url, HTTPS, 0) = 0

\* ----------------------------------------------------------- ExtractDomain

\* Everything behind the scheme delimiter, path included.
ExtractAfterScheme(url) ==
    IF Find(url, SchemeDelim, 0) = NPOS THEN <<>>
    ELSE SubstrFrom(url, Find(url, SchemeDelim, 0) + 3)

ExtractDomain(url) ==
    IF url = <<>> THEN <<>>
    ELSE LET proto_end == Find(url, SchemeDelim, 0)
         IN  IF proto_end = NPOS THEN <<>>
             ELSE LET domain_start == proto_end + 3
                  IN  IF domain_start >= Len(url) THEN <<>>
                      ELSE LET path_start == Find(url, <<"/">>, domain_start)
                           IN  IF path_start = NPOS
                               THEN SubstrFrom(url, domain_start)
                               ELSE Substr(url, domain_start,
                                           path_start - domain_start)

\* ------------------------------------------------------------ ParseURLList

\* A piece kept as it stands between the delimiters.
KeepPieceUntrimmed(urls, piece) ==
    IF IsHttpURL(piece) THEN Append(urls, piece) ELSE urls

\* Trim one piece of the marker body and keep it when it is an http(s) URL.
KeepPiece(urls, piece) ==
    LET url_start == FindFirstNotOf(piece, Whitespace)
        url_end == FindLastNotOf(piece, Whitespace)
    IN  IF url_start # NPOS /\ url_end # NPOS
        THEN LET url == Substr(piece, url_start, url_end - url_start + 1)
             IN  IF IsHttpURL(url) THEN Append(urls, url) ELSE urls
        ELSE urls

\* The while loop that splits the trimmed marker body on '|'.
RECURSIVE SplitByDelimiter(_, _, _)
SplitByDelimiter(gfw_content, pos, urls) ==
    IF pos >= Len(gfw_content) THEN urls
    ELSE LET delim_pos == Find(gfw_content, <<"|">>, pos)
         IN  IF delim_pos = NPOS
             THEN KeepPiece(urls, SubstrFrom(gfw_content, pos))
             ELSE SplitByDelimiter(
                      gfw_content, delim_pos + 1,
                      KeepPiece(urls, Substr(gfw_content, pos, delim_pos - pos)))

\* std::getline over the content: the lines between '\n', the last one
\* without its terminator; no line after a final '\n'.
RECURSIVE GetLines(_, _)
GetLines(content, pos) ==
    IF pos >= Len(content) THEN <<>>
    ELSE LET nl == Find(content, <<"\n">>, pos)
         IN  IF nl = NPOS THEN <<SubstrFrom(content, pos)>>
             ELSE <<Substr(content, pos, nl - pos)>> \o GetLines(content, nl + 1)

\* A line kept as std::getline gave it.
KeepLineUntrimmed(urls, raw) ==
    IF raw = <<>> \/ raw[1] = "#" THEN urls
    ELSE IF IsHttpURL(raw) THEN Append(urls, raw)
    ELSE urls

\* One line of the fallback loop.
KeepLine(urls, raw) ==
    LET start == FindFirstNotOf(raw, Whitespace)
    IN  IF start = NPOS THEN urls
        ELSE LET end == FindLastNotOf(raw, Whitespace)
                 line == Substr(raw, start, end - start + 1)
             IN  IF line = <<>> \/ line[1] = "#" THEN urls
                 ELSE IF IsHttpURL(line) THEN Append(urls, line)
                 ELSE urls

RECURSIVE ParseLines(_, _)
ParseLines(lines, urls) ==
    IF lines = <<>> THEN urls
    ELSE ParseLines(Tail(lines), KeepLine(urls, Head(lines)))

\* The fallback of ParseURLList: line by line.
ParseLineByLine(content) == ParseLines(GetLines(content, 0), <<>>)

ParseURLList(content) ==
    LET first == Find(content, marker, 0)
        start_pos == first + Len(marker)
        end_pos == IF first = NPOS THEN NPOS ELSE Find(content, marker, start_pos)
    IN  IF first # NPOS /\ end_pos # NPOS
        THEN LET gfw_content == Substr(content, start_pos, end_pos - start_pos)
                 trim_start == FindFirstNotOf(gfw_content, Whitespace)
                 trim_end == FindLastNotOf(gfw_content, Whitespace)
             IN  IF trim_start # NPOS /\ trim_end # NPOS
                 THEN SplitByDelimiter(
                          Substr(gfw_content, trim_start, trim_end - trim_start + 1),
                          0, <<>>)
                 ELSE ParseLineByLine(content)
        ELSE ParseLineByLine(content)

\* ------------------------------------------------- last_error_ messages

\* The message literals of firewall_detector.cpp, character by character.
\* "All URL detection failed, retrying..." (GetFinalServer: every URL of the pass failed)
MsgAllFailed ==
    <<"A", "l", "l", " ", "U", "R", "L", " ", "d", "e", "t", "e", "c", "t",
      "i", "o", "n", " ", "f", "a", "i", "l", "e", "d", ",", " ", "r", "e",
      "t", "r", "y", "i", "n", "g", ".", ".", ".">>
\* "Maximum list recursion depth exceeded: " (CheckURL)
MsgDepthExceeded ==
    <<"M", "a", "x", "i", "m", "u", "m", " ", "l", "i", "s", "t", " ", "r",
      "e", "c", "u", "r", "s", "i", "o", "n", " ", "d", "e", "p", "t", "h",
      " ", "e", "x", "c", "e", "e", "d", "e", "d", ":", " ">>
\* "Empty URL provided" (CheckNormalURL)
MsgEmptyURL ==
    <<"E", "m", "p", "t", "y", " ", "U", "R", "L", " ", "p", "r", "o", "v",
      "i", "d", "e", "d">>
\* "Network client not initialized" (CheckNormalURL, CheckListURL)
MsgNoClient ==
    <<"N", "e", "t", "w", "o", "r", "k", " ", "c", "l", "i", "e", "n", "t",
      " ", "n", "o", "t", " ", "i", "n", "i", "t", "i", "a", "l", "i", "z",
      "e", "d">>
\* "Failed to generate random data: " (CheckNormalURLOnce step 1)
MsgRandomEmpty ==
    <<"F", "a", "i", "l", "e", "d", " ", "t", "o", " ", "g", "e", "n", "e",
      "r", "a", "t", "e", " ", "r", "a", "n", "d", "o", "m", " ", "d", "a",
      "t", "a", ":", " ">>
\* "Exception generating random data: " (CheckNormalURLOnce step 1)
MsgRandomException ==
    <<"E", "x", "c", "e", "p", "t", "i", "o", "n", " ", "g", "e", "n", "e",
      "r", "a", "t", "i", "n", "g", " ", "r", "a", "n", "d", "o", "m", " ",
      "d", "a", "t", "a", ":", " ">>
\* "Failed to construct payload JSON: " (CheckNormalURLOnce step 2)
MsgPayloadJson ==
    <<"F", "a", "i", "l", "e", "d", " ", "t", "o", " ", "c", "o", "n", "s",
      "t", "r", "u", "c", "t", " ", "p", "a", "y", "l", "o", "a", "d", " ",
      "J", "S", "O", "N", ":", " ">>
\* "Failed to encrypt data: " (CheckNormalURLOnce step 3)
MsgEncryptEmpty ==
    <<"F", "a", "i", "l", "e", "d", " ", "t", "o", " ", "e", "n", "c", "r",
      "y", "p", "t", " ", "d", "a", "t", "a", ":", " ">>
\* "Exception encrypting data: " (CheckNormalURLOnce step 3)
MsgEncryptException ==
    <<"E", "x", "c", "e", "p", "t", "i", "o", "n", " ", "e", "n", "c", "r",
      "y", "p", "t", "i", "n", "g", " ", "d", "a", "t", "a", ":", " ">>
\* "Failed to construct request JSON: " (CheckNormalURLOnce step 4)
MsgRequestJson ==
    <<"F", "a", "i", "l", "e", "d", " ", "t", "o", " ", "c", "o", "n", "s",
      "t", "r", "u", "c", "t", " ", "r", "e", "q", "u", "e", "s", "t", " ",
      "J", "S", "O", "N", ":", " ">>
\* "POST request exception: " (CheckNormalURLOnce step 5)
MsgPostException ==
    <<"P", "O", "S", "T", " ", "r", "e", "q", "u", "e", "s", "t", " ", "e",
      "x", "c", "e", "p", "t", "i", "o", "n", ":", " ">>
\* "POST request failed: " (CheckNormalURLOnce step 5)
MsgPostFailed ==
    <<"P", "O", "S", "T", " ", "r", "e", "q", "u", "e", "s", "t", " ", "f",
      "a", "i", "l", "e", "d", ":", " ">>
\* "Failed to parse response JSON: " (CheckNormalURLOnce step 6)
MsgParseResponse ==
    <<"F", "a", "i", "l", "e", "d", " ", "t", "o", " ", "p", "a", "r", "s",
      "e", " ", "r", "e", "s", "p", "o", "n", "s", "e", " ", "J", "S", "O",
      "N", ":", " ">>
\* "Response JSON missing required fields: " (CheckNormalURLOnce step 7)
MsgResponseFields ==
    <<"R", "e", "s", "p", "o", "n", "s", "e", " ", "J", "S", "O", "N", " ",
      "m", "i", "s", "s", "i", "n", "g", " ", "r", "e", "q", "u", "i", "r",
      "e", "d", " ", "f", "i", "e", "l", "d", "s", ":", " ">>
\* "Signature verification exception: " (CheckNormalURLOnce step 8)
MsgSignatureException ==
    <<"S", "i", "g", "n", "a", "t", "u", "r", "e", " ", "v", "e", "r", "i",
      "f", "i", "c", "a", "t", "i", "o", "n", " ", "e", "x", "c", "e", "p",
      "t", "i", "o", "n", ":", " ">>
\* "Signature verification failed: " (CheckNormalURLOnce step 8)
MsgSignatureFailed ==
    <<"S", "i", "g", "n", "a", "t", "u", "r", "e", " ", "v", "e", "r", "i",
      "f", "i", "c", "a", "t", "i", "o", "n", " ", "f", "a", "i", "l", "e",
      "d", ":", " ">>
\* "Failed to parse server response JSON: " (CheckNormalURLOnce step 9)
MsgParseServer ==
    <<"F", "a", "i", "l", "e", "d", " ", "t", "o", " ", "p", "a", "r", "s",
      "e", " ", "s", "e", "r", "v", "e", "r", " ", "r", "e", "s", "p", "o",
      "n", "s", "e", " ", "J", "S", "O", "N", ":", " ">>
\* "Server response missing required fields: " (CheckNormalURLOnce step 10)
MsgServerFields ==
    <<"S", "e", "r", "v", "e", "r", " ", "r", "e", "s", "p", "o", "n", "s",
      "e", " ", "m", "i", "s", "s", "i", "n", "g", " ", "r", "e", "q", "u",
      "i", "r", "e", "d", " ", "f", "i", "e", "l", "d", "s", ":", " ">>
\* "Nonce mismatch: " (CheckNormalURLOnce step 11)
MsgNonceMismatch ==
    <<"N", "o", "n", "c", "e", " ", "m", "i", "s", "m", "a", "t", "c", "h",
      ":", " ">>
\* " (expected: " (CheckNormalURLOnce step 11)
MsgExpected ==
    <<" ", "(", "e", "x", "p", "e", "c", "t", "e", "d", ":", " ">>
\* "..., actual: " (CheckNormalURLOnce step 11)
MsgActual ==
    <<".", ".", ".", ",", " ", "a", "c", "t", "u", "a", "l", ":", " ">>
\* "...)" (CheckNormalURLOnce step 11)
MsgDots ==
    <<".", ".", ".", ")">>
\* " - " (separator before the transport's error_msg)
MsgSep ==
    <<" ", "-", " ">>
\* "Invalid list URL: too short" (CheckListURL)
MsgListTooShort ==
    <<"I", "n", "v", "a", "l", "i", "d", " ", "l", "i", "s", "t", " ", "U",
      "R", "L", ":", " ", "t", "o", "o", " ", "s", "h", "o", "r", "t">>
\* "Empty URL after removing #" (CheckListURL)
MsgListEmptyURL ==
    <<"E", "m", "p", "t", "y", " ", "U", "R", "L", " ", "a", "f", "t", "e",
      "r", " ", "r", "e", "m", "o", "v", "i", "n", "g", " ", "#">>
\* "GET request exception: " (CheckListURL)
MsgGetException ==
    <<"G", "E", "T", " ", "r", "e", "q", "u", "e", "s", "t", " ", "e", "x",
      "c", "e", "p", "t", "i", "o", "n", ":", " ">>
\* "GET request failed: " (CheckListURL)
MsgGetFailed ==
    <<"G", "E", "T", " ", "r", "e", "q", "u", "e", "s", "t", " ", "f", "a",
      "i", "l", "e", "d", ":", " ">>
\* "Sub-list empty or parse failed: " (CheckListURL)
MsgListEmpty ==
    <<"S", "u", "b", "-", "l", "i", "s", "t", " ", "e", "m", "p", "t", "y",
      " ", "o", "r", " ", "p", "a", "r", "s", "e", " ", "f", "a", "i", "l",
      "e", "d", ":", " ">>
\* "All URLs in sub-list failed: " (CheckListURL)
MsgListAllFailed ==
    <<"A", "l", "l", " ", "U", "R", "L", "s", " ", "i", "n", " ", "s", "u",
      "b", "-", "l", "i", "s", "t", " ", "f", "a", "i", "l", "e", "d", ":",
      " ">>

\* ------------------------------------------------------------ environment

\* A NULL pointer argument of the C bindings (no string equals it).
NullPtr == <<"NULL">>

\* Endpoints of the scenario: a Direct endpoint that always verifies, one
\* whose transport always fails, one that may answer anything, a List
\* endpoint, a List endpoint whose list names itself, and the degenerate
\* endpoints "#" and "".
GoodURL == HTTP \o <<"g">>
BadURL == HTTP \o <<"b">>
WildURL == HTTP \o <<"w">>
ListURL == HTTP \o <<"l", "#">>
CycleURL == HTTP \o <<"c", "#">>
HashURL == <<"#">>
EmptyURL == <<>>

\* server_domain values asserted by the servers.
GoodDomain == <<"d", "1">>
WildDomain == <<"d", "2">>

\* HttpResponse::error_msg of a failed transport call.
TransportError == <<"E">>

\* The i-th value of the random generator (GenerateRandom), as a string:
\* the generator cycles through NonceSpace values, so that a value differs
\* from the one issued before it.
Digits == <<"1", "2", "3", "4", "5", "6", "7", "8", "9">>
NonceValue(i) == <<"n", Digits[i]>>

\* What the collaborators of one verification attempt do: GenerateRandom,
\* ToJson (payload), EncryptWithPublicKey, ToJson (request), Post, ParseJson
\* (response), the keys of the response, VerifySignature, ParseJson (data),
\* the keys of the data, the nonce the server echoes and the domain it
\* asserts.
HonestAttempt(domain) ==
    [gen |-> "ok", json1 |-> "ok", enc |-> "ok", json2 |-> "ok",
     post |-> "ok", parse1 |-> "ok", has_data |-> TRUE,
     has_signature |-> TRUE, sig |-> "valid", parse2 |-> "ok",
     has_nonce |-> TRUE, has_domain |-> TRUE, echo |-> "own",
     domain |-> domain]

\* Attempts in which one local collaborator or the transport misbehaves.
LocalFailures ==
    LET b == HonestAttempt(WildDomain)
    IN  {[b EXCEPT !.gen = "throw"], [b EXCEPT !.gen = "empty"],
         [b EXCEPT !.json1 = "throw"],
         [b EXCEPT !.enc = "throw"], [b EXCEPT !.enc = "empty"],
         [b EXCEPT !.json2 = "throw"],
         [b EXCEPT !.post = "throw"], [b EXCEPT !.post = "fail"],
         [b EXCEPT !.parse1 = "throw"],
         [b EXCEPT !.has_data = FALSE], [b EXCEPT !.has_signature = FALSE],
         [b EXCEPT !.parse2 = "throw"]}

\* Attempts that receive a response: any signature verdict, any echoed
\* nonce (the attempt's own, the nonce of an earlier attempt, or junk), the
\* data keys present or missing.
Responses ==
    {[HonestAttempt(WildDomain) EXCEPT !.sig = s, !.echo = n,
                                       !.has_nonce = hn, !.has_domain = hd] :
        s \in {"valid", "invalid", "throw"},
        n \in {"own", "stale", "junk"},
        hn \in BOOLEAN, hd \in BOOLEAN}

\* What the endpoint "http://w" does during a discovery call: it verifies,
\* its transport fails, the generator gives nothing, the payload cannot be
\* serialized, the encryption gives nothing, its signature is rejected, or
\* it replays a signed response with a stale or a junk nonce.
WildAttempts ==
    LET b == HonestAttempt(WildDomain)
    IN  {b, [b EXCEPT !.post = "fail"], [b EXCEPT !.gen = "empty"],
         [b EXCEPT !.json1 = "throw"], [b EXCEPT !.enc = "empty"],
         [b EXCEPT !.sig = "invalid"], [b EXCEPT !.echo = "stale"],
         [b EXCEPT !.echo = "junk"]}

\* The attempts each endpoint can produce (INetworkClient::Post and the
\* crypto and codec collaborators): "http://g" always verifies, "http://w"
\* does any of the above, every other URL fails at transport.
PostBehaviours(url) ==
    IF url = GoodURL THEN {HonestAttempt(GoodDomain)}
    ELSE IF url = WildURL THEN WildAttempts
    ELSE {[HonestAttempt(WildDomain) EXCEPT !.post = "fail"]}

\* Bodies served for the list at "http://l": a marker list [bad, good], a
\* line list [bad, "http://c#"] and a body with no URL.
ListBodyMarker ==
    <<"x", "\n">> \o marker \o <<" ">> \o BadURL \o <<" ", "|", " ">>
        \o GoodURL \o <<"\n">> \o marker
ListBodyLines ==
    <<"#", "c", "\n", " ">> \o BadURL \o <<"\r", "\n">> \o CycleURL
        \o <<"\n", "f", "t", "p", ":", "/", "/", "z", "\n">>
ListBodyJunk == <<"4", "0", "4">>
\* A body served at "http://c": a list that names its own List endpoint. The
\* marker list is the other body served there.
CycleBody == marker \o CycleURL \o <<"|">> \o BadURL \o marker

\* The results INetworkClient::Get can give for each URL.
GetBehaviours(actual_url) ==
    IF actual_url = HTTP \o <<"l">>
    THEN {[get |-> "ok", body |-> ListBodyMarker],
          [get |-> "ok", body |-> ListBodyLines],
          [get |-> "ok", body |-> ListBodyJunk],
          [get |-> "fail", body |-> <<>>],
          [get |-> "throw", body |-> <<>>]}
    ELSE IF actual_url = HTTP \o <<"c">>
    THEN {[get |-> "ok", body |-> CycleBody],
          [get |-> "ok", body |-> ListBodyMarker]}
    ELSE {[get |-> "fail", body |-> <<>>]}

\* The bodies a GET can deliver, and ParseURLList applied to each of them.
ListBodies == {ListBodyMarker, ListBodyLines, ListBodyJunk, CycleBody, <<>>}
ParsedBody == [content \in ListBodies |-> ParseURLList(content)]

\* Events a step performs: network calls and sleeps.
PostEvent(url) == [op |-> "POST", url |-> url, ms |-> 0]
GetEvent(url) == [op |-> "GET", url |-> url, ms |-> 0]
SleepEvent(ms) == [op |-> "SLEEP", url |-> <<>>, ms |-> ms]

\* ------------------------------------------------------ CheckNormalURLOnce

\* truncated_custom_data: custom_data, cut to its first MAX_CLIENT_DATA_SIZE
\* characters when it is longer.
TruncatedCustomData(custom_data) ==
    IF Len(custom_data) > MAX_CLIENT_DATA_SIZE
    THEN Substr(custom_data, 0, MAX_CLIENT_DATA_SIZE)
    ELSE custom_data

\* The payload map of CheckNormalURLOnce, handed to ToJson and then to
\* EncryptWithPublicKey.
Payload(random_data, custom_data) ==
    [nonce |-> random_data, client_data |-> TruncatedCustomData(custom_data)]

\* The payload map of CheckNormalURL in src/client/firewall_detector.cpp.
ClientPayload(random_data, custom_data) ==
    [nonce |-> random_data, client_data |-> custom_data]

\* return false with last_error_ set; random_data and returned_nonce are
\* the locals of the attempt as far as it got.
AttemptFailed(error, events, random_data, returned_nonce) ==
    [ok |-> FALSE, domain |-> <<>>, error |-> error, io |-> events,
     random_data |-> random_data, returned_nonce |-> returned_nonce]

\* An attempt that would keep the nonce of an earlier attempt.
AttemptNonceKept(kept, generated) == kept

\* random_data is a local of CheckNormalURLOnce, assigned from
\* GenerateRandom in every call; nothing kept from an earlier attempt is used.
AttemptNonce(kept, generated) == generated

\* The nonce the server echoes: the one it decrypted from this request, one
\* captured from an earlier attempt, or junk.
EchoedNonce(e, random_data, stale) ==
    IF e.echo = "own" THEN random_data
    ELSE IF e.echo = "stale" THEN stale
    ELSE <<"?">>

\* A detector that would post a ciphertext that is empty.
EncryptedEmptyAccepted(e) == FALSE

\* if (encrypted_data.empty()) after EncryptWithPublicKey (step 3)
EncryptedEmpty(e) == e.enc = "empty"

\* A check that would let every signature pass.
SignatureNeverRejected(e) == FALSE

\* if (!signature_valid) after VerifySignature (step 8)
SignatureRejected(e) == e.sig # "valid"

\* A comparison that would accept any echoed nonce.
NonceMatchesAny(returned_nonce, random_data) == TRUE

\* returned_nonce != random_data is the mismatch (step 11)
NonceMatches(returned_nonce, random_data) == returned_nonce = random_data

\* A detector that would take the domain from the endpoint URL.
DomainFromURL(url, returned_domain) == ExtractDomain(url)

\* domain = returned_domain (step 12): the server-provided domain
VerifiedDomain(url, returned_domain) == returned_domain

\* "Nonce mismatch: <url> (expected: <10 chars>..., actual: <10 chars>...)"
NonceMismatchText(url, random_data, returned_nonce) ==
    MsgNonceMismatch \o url \o MsgExpected
        \o Substr(random_data, 0, MinOf(Len(random_data), 10))
        \o MsgActual
        \o Substr(returned_nonce, 0, MinOf(Len(returned_nonce), 10))
        \o MsgDots

\* One verification attempt against url, the collaborators behaving as e;
\* generated is what GenerateRandom returns, stale a nonce of an earlier
\* attempt. The result: success and the domain, or the error left in
\* last_error_, with the network calls made.
CheckNormalURLOnce(url, generated, stale, e) ==
    LET random_data == IF e.gen = "ok" THEN AttemptNonce(stale, generated)
                       ELSE <<>>
        posted == <<PostEvent(url)>>
        returned_nonce == EchoedNonce(e, random_data, stale)
        Before(error) == AttemptFailed(error \o url, <<>>, random_data, <<>>)
        After(error) == AttemptFailed(error \o url, posted, random_data, <<>>)
    IN  IF e.gen = "throw" THEN Before(MsgRandomException)
        ELSE IF random_data = <<>> THEN Before(MsgRandomEmpty)
        ELSE IF e.json1 = "throw" THEN Before(MsgPayloadJson)
        ELSE IF e.enc = "throw" THEN Before(MsgEncryptException)
        ELSE IF EncryptedEmpty(e) THEN Before(MsgEncryptEmpty)
        ELSE IF e.json2 = "throw" THEN Before(MsgRequestJson)
        ELSE IF e.post = "throw" THEN After(MsgPostException)
        ELSE IF e.post = "fail"
        THEN AttemptFailed(MsgPostFailed \o url \o MsgSep \o TransportError,
                           posted, random_data, <<>>)
        ELSE IF e.parse1 = "throw" THEN After(MsgParseResponse)
        ELSE IF ~e.has_data \/ ~e.has_signature THEN After(MsgResponseFields)
        ELSE IF e.sig = "throw" THEN After(MsgSignatureException)
        ELSE IF SignatureRejected(e) THEN After(MsgSignatureFailed)
        ELSE IF e.parse2 = "throw" THEN After(MsgParseServer)
        ELSE IF ~e.has_nonce \/ ~e.has_domain THEN After(MsgServerFields)
        ELSE IF ~NonceMatches(returned_nonce, random_data)
        THEN AttemptFailed(NonceMismatchText(url, random_data, returned_nonce),
                           posted, random_data, returned_nonce)
        ELSE [ok |-> TRUE, domain |-> VerifiedDomain(url, e.domain),
              error |-> <<>>, io |-> posted, random_data |-> random_data,
              returned_nonce |-> returned_nonce]

\* ------------------------------------------------------------------ state

VARIABLES
    url_list_,        \* FirewallDetector::url_list_, the EndpointSet
    network_client_,  \* FirewallDetector::network_client_ is not null
    last_error_,      \* FirewallDetector::last_error_
    stack,            \* activations of the running GetFinalServer call
    ret,              \* what the callee that just returned gave back
    api,              \* the latest call of the C interface and its result
    given,            \* observer: the arguments of that call
    rng,              \* the random generator behind GenerateRandom: its next value
    att,              \* observer: the latest verification attempt
    failure,          \* observer: message of the latest per-endpoint failure
    io,               \* observer: network calls and sleeps of the last step
    trace,            \* observer: the events of the call's first pass
    pass,             \* observer: "first" or "later" pass of the call
    posted,           \* observer: a POST has gone out, no sleep since
    applied,          \* the pure function that has been applied, or "none"
    input,            \* its argument
    output,           \* its result
    side,             \* the latest call made from the host's own thread
    alive,            \* the FirewallDetector behind the handle is not deleted
    aborted           \* the process has ended abnormally

vars == <<url_list_, network_client_, last_error_, stack, ret, api, given, rng,
          att, failure, io, trace, pass, posted, applied, input, output, side,
          alive, aborted>>

\* The detector behind its C interface, and a function of it applied on its
\* own.
program == <<url_list_, network_client_, last_error_, stack, ret, api, given,
             rng, att, failure, io, trace, pass, posted>>
bench == <<applied, input, output>>
\* The host's second thread and the life of the object and of the process.
threads == <<side, alive, aborted>>

\* What the thread running GetFinalServer never touches: the host's side of
\* the C interface.
host == <<given>>

\* An activation: CheckURL(url, depth) and the checker it dispatched to, or
\* the outer loop of GetFinalServer. idx is the loop variable (the position
\* in url_list_ or sub_urls, or attempt); tries and delays count the
\* attempts run and the retry delays slept by this CheckNormalURL.
Frame(fn, url, depth, pc) ==
    [fn |-> fn, url |-> url, depth |-> depth, pc |-> pc, idx |-> 1,
     sub_urls |-> <<>>, tries |-> 0, delays |-> 0]

Top == stack[Len(stack)]
Running == stack # <<>>
In(fn, pc) == Running /\ Top.fn = fn /\ Top.pc = pc
SetTop(f) == [stack EXCEPT ![Len(stack)] = f]
Pop == SubSeq(stack, 1, Len(stack) - 1)

NoRet == [st |-> "none", domain |-> <<>>, fn |-> "", tries |-> 0, delays |-> 0]
Returned(fn, ok, domain, f) ==
    [st |-> IF ok THEN "ok" ELSE "fail", domain |-> domain, fn |-> fn,
     tries |-> f.tries, delays |-> f.delays]

\* The observed attempt: its URL, the value GenerateRandom gave it, a value
\* the generator gave earlier, what the collaborators did, and the result.
NoAttempt ==
    [made |-> FALSE, url |-> <<>>, generated |-> <<>>, earlier |-> <<>>,
     env |-> HonestAttempt(<<>>), res |-> AttemptFailed(<<>>, <<>>, <<>>, <<>>)]

\* The trace once it no longer holds every event of the call.
Overflowed == <<[op |-> "MORE", url |-> <<>>, ms |-> 0]>>

\* Whether a POST is the latest of the POSTs and sleeps so far, after events.
RECURSIVE PostedAfter(_, _)
PostedAfter(before, events) ==
    IF events = <<>> THEN before
    ELSE PostedAfter(IF Head(events).op = "POST" THEN TRUE
                     ELSE IF Head(events).op = "SLEEP" THEN FALSE
                     ELSE before, Tail(events))

\* The step's events, appended to the trace while it has room.
Record(events) ==
    /\ io' = events
    /\ posted' = PostedAfter(posted, events)
    /\ trace' = IF trace = Overflowed \/ Len(trace) + Len(events) > MaxTrace
                THEN Overflowed
                ELSE trace \o events

\* --------------------------------------------------------------- bindings

\* The arguments of a call of the C interface: the handle is not NULL, the
\* buffer is not NULL, its size; the array is not NULL, the array, the count;
\* the URL of passgfw_add_url. A call leaves the ones it does not take as in
\* NoArgs.
NoArgs ==
    [detector |-> TRUE, out |-> TRUE, size |-> 0, urls_given |-> TRUE,
     urls |-> <<>>, count |-> 0, url |-> <<>>]
BufferCall(a) ==
    [NoArgs EXCEPT !.detector = a.detector, !.out = a.out, !.size = a.size]
ListCall(a) ==
    [NoArgs EXCEPT !.detector = a.detector, !.urls_given = a.urls_given,
                   !.urls = a.urls, !.count = a.count]
URLCall(detector, url) == [NoArgs EXCEPT !.detector = detector, !.url = url]

\* The (handle, buffer, size) arguments the host passes to the buffer-based
\* bindings: good ones with a short and a long buffer, a NULL handle, a NULL
\* buffer, a size that is not positive.
BufferArgs ==
    LET a == [detector |-> TRUE, out |-> TRUE, size |-> MaxBuf]
    IN  {a, [a EXCEPT !.size = MaxBuf - 1], [a EXCEPT !.detector = FALSE],
         [a EXCEPT !.out = FALSE], [a EXCEPT !.size = 0],
         [a EXCEPT !.size = -1]}

\* The observers describe the latest discovery call until the host makes
\* its next call; the generator restarts its cycle there.
ResetObservers ==
    /\ rng' = 1
    /\ att' = NoAttempt
    /\ io' = <<>>
    /\ trace' = <<>>
    /\ posted' = FALSE

\* A copy that would not look at the size of the buffer.
CopyWhole(s, size) == s

\* memcpy(out, s.c_str(), len); out[len] = '\0' with len cut to size - 1:
\* the C string left in the buffer.
CopyToBuffer(s, size) ==
    LET len == IF Len(s) >= size THEN size - 1 ELSE Len(s)
    IN  Substr(s, 0, len)

ApiResult(op, rc, size, written, out) ==
    [op |-> op, done |-> TRUE, rc |-> rc, size |-> size,
     written |-> written, out |-> out]

\* Config::GetBuiltinURLs(): the list compiled into the build.
GetBuiltinURLs == {<<BadURL, GoodURL>>, <<ListURL>>}

\* Arrays the host passes to passgfw_set_url_list (NULL entries included)
\* and URLs it passes to passgfw_add_url.
HostArrays ==
    {<<BadURL, GoodURL>>, <<WildURL>>, <<NullPtr>>, <<NullPtr, GoodURL>>,
     <<CycleURL, GoodURL>>, <<HashURL, EmptyURL>>, <<ListURL, WildURL>>}
HostURLs == {GoodURL, WildURL}

\* The loop of passgfw_set_url_list: the non-NULL entries among the first
\* count, in order.
RECURSIVE NonNullEntries(_, _, _)
NonNullEntries(urls, i, count) ==
    IF i >= count THEN <<>>
    ELSE (IF urls[i + 1] # NullPtr THEN <<urls[i + 1]>> ELSE <<>>)
             \o NonNullEntries(urls, i + 1, count)

\* A set that would add the given URLs behind the ones already there.
SetURLListAppending(old, urls) == old \o urls

\* FirewallDetector::SetURLList
SetURLList(old, urls) == urls

\* An add that would put the new URL in front of the list.
AddURLFront(old, url) == <<url>> \o old

\* An add that would start the list over with the new URL.
AddURLReplacing(old, url) == <<url>>

\* FirewallDetector::AddURL
AddURL(old, url) == Append(old, url)

\* The (handle, urls, count) arguments the host passes to
\* passgfw_set_url_list: each array whole or without its last entry, a NULL
\* handle, a NULL array, a count that is not positive.
SetArgs ==
    {a \in [detector : {TRUE}, urls_given : {TRUE}, urls : HostArrays,
            count : {1, 2}] : a.count <= Len(a.urls)}
    \cup {[detector |-> FALSE, urls_given |-> TRUE, urls |-> <<GoodURL>>,
           count |-> 1],
          [detector |-> TRUE, urls_given |-> FALSE, urls |-> <<>>,
           count |-> 1],
          [detector |-> TRUE, urls_given |-> TRUE, urls |-> <<GoodURL>>,
           count |-> 0],
          [detector |-> TRUE, urls_given |-> TRUE, urls |-> <<GoodURL>>,
           count |-> -1]}

\* A binding that would empty the list before it looks at the count.
passgfw_set_url_list_Clearing ==
    /\ ~Running
    /\ \E a \in SetArgs :
         /\ given' = ListCall(a)
         /\ IF ~a.detector \/ ~a.urls_given
            THEN /\ api' = ApiResult("set_url_list", -1, 0, FALSE, <<>>)
                 /\ UNCHANGED url_list_
            ELSE IF a.count <= 0
            THEN /\ api' = ApiResult("set_url_list", -1, 0, FALSE, <<>>)
                 /\ url_list_' = <<>>
            ELSE /\ url_list_' =
                        SetURLList(url_list_,
                                   NonNullEntries(a.urls, 0, a.count))
                 /\ api' = ApiResult("set_url_list", 0, 0, FALSE, <<>>)
    /\ ResetObservers
    /\ pass' = "none"
    /\ UNCHANGED <<network_client_, last_error_, stack, ret, failure>>
    /\ UNCHANGED <<bench, threads>>

passgfw_set_url_list ==
    /\ ~Running
    /\ \E a \in SetArgs :
         /\ given' = ListCall(a)
         /\ IF ~a.detector \/ ~a.urls_given \/ a.count <= 0
            THEN /\ api' = ApiResult("set_url_list", -1, 0, FALSE, <<>>)
                 /\ UNCHANGED url_list_
            ELSE /\ url_list_' =
                        SetURLList(url_list_,
                                   NonNullEntries(a.urls, 0, a.count))
                 /\ api' = ApiResult("set_url_list", 0, 0, FALSE, <<>>)
    /\ ResetObservers
    /\ pass' = "none"
    /\ UNCHANGED <<network_client_, last_error_, stack, ret, failure>>
    /\ UNCHANGED <<bench, threads>>

passgfw_add_url ==
    /\ ~Running
    /\ \E detector \in BOOLEAN, url \in HostURLs \cup {NullPtr} :
         /\ given' = URLCall(detector, url)
         /\ IF ~detector \/ url = NullPtr
            THEN /\ api' = ApiResult("add_url", -1, 0, FALSE, <<>>)
                 /\ UNCHANGED url_list_
            ELSE /\ Len(url_list_) < MaxURLs
                 /\ url_list_' = AddURL(url_list_, url)
                 /\ api' = ApiResult("add_url", 0, 0, FALSE, <<>>)
    /\ ResetObservers
    /\ pass' = "none"
    /\ UNCHANGED <<network_client_, last_error_, stack, ret, failure>>
    /\ UNCHANGED <<bench, threads>>

\* An accessor that would always report no error.
GetLastErrorNone == <<>>

\* FirewallDetector::GetLastError
GetLastError == last_error_

passgfw_get_last_error ==
    /\ ~Running
    /\ \E a \in BufferArgs :
         /\ given' = BufferCall(a)
         /\ IF ~a.detector \/ ~a.out \/ a.size <= 0
            THEN api' = ApiResult("get_last_error", -1, a.size, FALSE, <<>>)
            ELSE api' = ApiResult("get_last_error", 0, a.size, TRUE,
                                  CopyToBuffer(GetLastError, a.size))
    /\ ResetObservers
    /\ pass' = "none"
    /\ UNCHANGED <<url_list_, network_client_, last_error_, stack, ret,
                   failure>>
    /\ UNCHANGED <<bench, threads>>

\* The call of the blocking binding: the argument check, then
\* GetFinalServer() starts its first pass.
passgfw_get_final_server ==
    /\ ~Running
    /\ \E a \in BufferArgs :
         /\ given' = BufferCall(a)
         /\ IF ~a.detector \/ ~a.out \/ a.size <= 0
            THEN /\ api' = ApiResult("get_final_server", -1, a.size, FALSE,
                                     <<>>)
                 /\ pass' = "none"
                 /\ UNCHANGED stack
            ELSE /\ api' = [ApiResult("get_final_server", 0, a.size, FALSE,
                                      <<>>) EXCEPT !.done = FALSE]
                 /\ stack' = <<Frame("GetFinalServer", <<>>, 0, "iter")>>
                 /\ pass' = "first"
    /\ ResetObservers
    /\ ret' = NoRet
    /\ UNCHANGED <<url_list_, network_client_, last_error_, failure>>
    /\ UNCHANGED <<bench, threads>>

\* ---------------------------------------------------------------- CheckURL

\* A depth check that would already reject the deepest allowed level.
DepthExceededEarly(recursion_depth) ==
    recursion_depth >= MAX_LIST_RECURSION_DEPTH

\* recursion_depth > Config::MAX_LIST_RECURSION_DEPTH
DepthExceeded(recursion_depth) == recursion_depth > MAX_LIST_RECURSION_DEPTH

\* !url.empty() && url.back() == '#'
IsListURL(url) == url # <<>> /\ url[Len(url)] = "#"

\* url.substr(0, url.length() - 1)
ActualURL(url) == Substr(url, 0, Len(url) - 1)

\* The outcome of CheckURL up to the first network call of the checker it
\* dispatches to: rejected with an error, or the checker is entered.
Rejected(error) ==
    [rejected |-> TRUE, error |-> error, frame |-> Frame("", <<>>, 0, "")]
Entered(frame) == [rejected |-> FALSE, error |-> <<>>, frame |-> frame]

\* CheckNormalURL before its retry loop: the input validation.
CheckNormalURLEntry(url, depth, client) ==
    IF url = <<>> THEN Rejected(MsgEmptyURL)
    ELSE IF ~client THEN Rejected(MsgNoClient)
    ELSE Entered(Frame("CheckNormalURL", url, depth, "attempt"))

\* A list checker that would start from sub-URLs it has kept, without a GET.
CheckListURLEntryKept(url, depth, client) ==
    Entered([Frame("CheckListURL", url, depth, "iter") EXCEPT
                 !.sub_urls = <<BadURL>>])

\* CheckListURL before its GET: the input validation and the stripped URL.
CheckListURLEntry(url, depth, client) ==
    IF url = <<>> \/ Len(url) < 2 THEN Rejected(MsgListTooShort)
    ELSE IF ~client THEN Rejected(MsgNoClient)
    ELSE IF ActualURL(url) = <<>> THEN Rejected(MsgListEmptyURL)
    ELSE Entered(Frame("CheckListURL", url, depth, "get"))

\* A list checker that would hand its own depth to its sub-URLs.
SameDepth(recursion_depth) == recursion_depth

\* recursion_depth + 1, the depth CheckListURL passes with each sub-URL
SubDepth(recursion_depth) == recursion_depth + 1

\* A dispatcher that would not look at the depth.
CheckURLUnbounded(url, recursion_depth, client) ==
    IF IsListURL(url) THEN CheckListURLEntry(url, recursion_depth, client)
    ELSE CheckNormalURLEntry(url, recursion_depth, client)

\* CheckURL: last_error_.clear(), the depth check, the dispatch.
CheckURL(url, recursion_depth, client) ==
    IF DepthExceeded(recursion_depth) THEN Rejected(MsgDepthExceeded \o url)
    ELSE IF IsListURL(url) THEN CheckListURLEntry(url, recursion_depth, client)
    ELSE CheckNormalURLEntry(url, recursion_depth, client)

\* The detector of src/client/firewall_detector.cpp: its CheckNormalURL
\* checks the network client only and then makes its single attempt.
ClientCheckNormalURLEntry(url, client) ==
    IF ~client THEN Rejected(MsgNoClient)
    ELSE Entered(Frame("CheckNormalURL", url, 0, "attempt"))

\* Its CheckListURL checks the network client only, strips the last
\* character and goes to its GET.
ClientCheckListURLEntry(url, client) ==
    IF ~client THEN Rejected(MsgNoClient)
    ELSE Entered(Frame("CheckListURL", url, 0, "get"))

\* Its CheckURL: last_error_.clear() and the dispatch; it takes no depth.
ClientCheckURL(url, client) ==
    IF IsListURL(url) THEN ClientCheckListURLEntry(url, client)
    ELSE ClientCheckNormalURLEntry(url, client)

\* A world: the endpoint list of the detector and what each URL does, the
\* same at every visit.
WorldLists ==
    {<<BadURL, GoodURL>>, <<ListURL, WildURL>>, <<CycleURL, GoodURL>>,
     <<WildURL, ListURL>>}
Worlds ==
    [urls : WorldLists, wild : WildAttempts,
     l : GetBehaviours(HTTP \o <<"l">>), c : GetBehaviours(HTTP \o <<"c">>)]
WorldPost(w, url) ==
    IF url = WildURL THEN w.wild ELSE CHOOSE e \in PostBehaviours(url) : TRUE
WorldGet(w, actual_url) ==
    IF actual_url = HTTP \o <<"l">> THEN w.l
    ELSE IF actual_url = HTTP \o <<"c">> THEN w.c
    ELSE CHOOSE g \in GetBehaviours(actual_url) : TRUE

\* The outcome of a call of the detector of src/client in a world: the
\* result and the domain, last_error_ after the call, the network calls and
\* sleeps made, and the largest number of lists that were open one inside
\* another.
ClientOutcome(ok, domain, error, events, lists) ==
    [ok |-> ok, domain |-> domain, error |-> error, io |-> events,
     lists |-> lists]

MaxOf(a, b) == IF a > b THEN a ELSE b

\* CheckNormalURL of src/client behind its input check: the one attempt,
\* the steps of which are those of CheckNormalURLOnce.
ClientCheckNormalURL(url, w, nested) ==
    LET r == CheckNormalURLOnce(url, NonceValue(1), NonceValue(2),
                                WorldPost(w, url))
    IN  ClientOutcome(r.ok, r.domain, r.error, r.io, nested)

RECURSIVE ClientCheck(_, _, _, _)
RECURSIVE ClientLoop(_, _, _, _, _)

\* for (const auto& sub_url : sub_urls) of CheckListURL, and the same loop
\* over url_list_ in GetFinalServer: CheckURL, return on success, sleep
\* URL_INTERVAL and go on otherwise.
ClientLoop(urls, idx, w, client, nested) ==
    IF idx > Len(urls) THEN ClientOutcome(FALSE, <<>>, <<>>, <<>>, nested)
    ELSE LET r == ClientCheck(urls[idx], w, client, nested)
         IN  IF r.ok THEN r
             ELSE LET rest == ClientLoop(urls, idx + 1, w, client, nested)
                  IN  [rest EXCEPT
                           !.io = r.io \o <<SleepEvent(URL_INTERVAL)>> \o @,
                           !.lists = MaxOf(r.lists, @)]

\* CheckListURL of src/client behind its input check: the GET, ParseURLList
\* and the loop over the sub-URLs. A list inside MaxNesting lists is not
\* followed.
ClientCheckListURL(url, w, client, nested) ==
    LET actual_url == ActualURL(url)
        g == WorldGet(w, actual_url)
        sub_urls == ParsedBody[g.body]
        get == <<GetEvent(actual_url)>>
        r == ClientLoop(sub_urls, 1, w, client, nested + 1)
    IN  IF nested >= MaxNesting
        THEN ClientOutcome(FALSE, <<>>, <<>>, <<>>, nested)
        ELSE IF g.get = "throw"
        THEN ClientOutcome(FALSE, <<>>, MsgGetException \o actual_url, get,
                           nested + 1)
        ELSE IF g.get = "fail"
        THEN ClientOutcome(FALSE, <<>>,
                           MsgGetFailed \o actual_url \o MsgSep
                               \o TransportError, get, nested + 1)
        ELSE IF sub_urls = <<>>
        THEN ClientOutcome(FALSE, <<>>, MsgListEmpty \o actual_url, get,
                           nested + 1)
        ELSE IF r.ok THEN [r EXCEPT !.io = get \o @]
        ELSE [r EXCEPT !.io = get \o @,
                       !.error = MsgListAllFailed \o actual_url]

\* A whole call of CheckURL of src/client, nested lists deep.
ClientCheck(url, w, client, nested) ==
    LET c == ClientCheckURL(url, client)
    IN  IF c.rejected THEN ClientOutcome(FALSE, <<>>, c.error, <<>>, nested)
        ELSE IF c.frame.fn = "CheckListURL"
        THEN ClientCheckListURL(url, w, client, nested)
        ELSE ClientCheckNormalURL(url, w, nested)

\* The first pass of GetFinalServer of src/client: the domain it returns, or
\* the pass-level error and the sleep before the next pass.
ClientGetFinalServer(w, client) ==
    LET r == ClientLoop(w.urls, 1, w, client, 0)
    IN  IF r.ok THEN r
        ELSE [r EXCEPT !.io = @ \o <<SleepEvent(RETRY_INTERVAL * 1000)>>,
                       !.error = MsgAllFailed]

\* The caller calls CheckURL(url, recursion_depth): last_error_ is cleared,
\* then either the call returns false at once with its error or the checker
\* runs on top of the caller.
Call(url, recursion_depth, caller) ==
    LET c == CheckURL(url, recursion_depth, network_client_)
    IN  /\ last_error_' = c.error
        /\ failure' = IF c.rejected THEN c.error ELSE failure
        /\ IF c.rejected
           THEN /\ stack' = SetTop(caller)
                /\ ret' = Returned("CheckURL", FALSE, <<>>, c.frame)
           ELSE /\ stack' = Append(SetTop(caller), c.frame)
                /\ ret' = NoRet

\* A caller that would take every result for a success.
SucceededAlways(r) == TRUE

\* if (CheckURL(...)) in GetFinalServer and CheckListURL,
\* if (CheckNormalURLOnce(...)) in CheckNormalURL
Succeeded(r) == r.st = "ok"

\* A loop that would start over at the first element after a failure.
RestartList(idx) == 1

\* A loop that would leave out the element after a failed one.
SkipInList(idx) == idx + 2

\* The range-for loops over url_list_ and sub_urls go on with the next
\* element after a failure.
NextInList(idx) == idx + 1

\* An attempt that would keep the first error of the endpoint.
LastErrorFirst(old, r) == IF r.ok \/ old # <<>> THEN old ELSE r.error

\* last_error_ after an attempt: every failing path of CheckNormalURLOnce
\* assigns it, the successful path leaves it alone.
LastErrorAfter(old, r) == IF r.ok THEN old ELSE r.error

\* -------------------------------------------------------- GetFinalServer

\* for (const auto& url : url_list_): CheckURL(url, custom_data, domain)
GetFinalServer_CheckURL ==
    /\ In("GetFinalServer", "iter")
    /\ Top.idx <= Len(url_list_)
    /\ Call(url_list_[Top.idx], 0, [Top EXCEPT !.pc = "called"])
    /\ Record(<<>>)
    /\ UNCHANGED <<url_list_, network_client_, api, rng, att, pass>>
    /\ UNCHANGED <<host, bench, threads>>

\* return domain, copied to the caller's buffer by the binding
GetFinalServer_Return ==
    /\ In("GetFinalServer", "called")
    /\ Succeeded(ret)
    /\ stack' = Pop
    /\ api' = ApiResult("get_final_server", 0, api.size, TRUE,
                        CopyToBuffer(ret.domain, api.size))
    /\ ret' = NoRet
    /\ Record(<<>>)
    /\ UNCHANGED <<url_list_, network_client_, last_error_, rng, att, failure,
                   pass>>
    /\ UNCHANGED <<host, bench, threads>>

\* The URL failed: sleep URL_INTERVAL, go on with the next URL.
GetFinalServer_NextURL ==
    /\ In("GetFinalServer", "called")
    /\ ~Succeeded(ret)
    /\ stack' = SetTop([Top EXCEPT !.pc = "iter", !.idx = NextInList(@)])
    /\ ret' = NoRet
    /\ att' = NoAttempt
    /\ Record(<<SleepEvent(URL_INTERVAL)>>)
    /\ UNCHANGED <<url_list_, network_client_, last_error_, api, rng, failure,
                   pass>>
    /\ UNCHANGED <<host, bench, threads>>

\* A scan that would give up after a pass in which every URL failed, and
\* return an empty domain.
GetFinalServer_AllFailedGivesUp ==
    /\ In("GetFinalServer", "iter")
    /\ Top.idx > Len(url_list_)
    /\ last_error_' = MsgAllFailed
    /\ stack' = Pop
    /\ api' = ApiResult("get_final_server", 0, api.size, TRUE, <<>>)
    /\ Record(<<>>)
    /\ UNCHANGED <<url_list_, network_client_, ret, rng, att, failure, pass>>
    /\ UNCHANGED <<host, bench, threads>>

\* A scan that would start its next pass without the sleep between passes.
GetFinalServer_AllFailedNoSleep ==
    /\ In("GetFinalServer", "iter")
    /\ Top.idx > Len(url_list_)
    /\ last_error_' = MsgAllFailed
    /\ stack' = SetTop([Top EXCEPT !.idx = 1])
    /\ pass' = "later"
    /\ io' = <<>>
    /\ trace' = Overflowed
    /\ posted' = posted
    /\ UNCHANGED <<url_list_, network_client_, ret, api, rng, att, failure>>
    /\ UNCHANGED <<host, bench, threads>>

\* All URLs failed: set the error, sleep RETRY_INTERVAL seconds, restart.
GetFinalServer_AllFailed ==
    /\ In("GetFinalServer", "iter")
    /\ Top.idx > Len(url_list_)
    /\ last_error_' = MsgAllFailed
    /\ stack' = SetTop([Top EXCEPT !.idx = 1])
    /\ pass' = "later"
    /\ io' = <<SleepEvent(RETRY_INTERVAL * 1000)>>
    /\ trace' = Overflowed
    /\ posted' = FALSE
    /\ UNCHANGED <<url_list_, network_client_, ret, api, rng, att, failure>>
    /\ UNCHANGED <<host, bench, threads>>

\* --------------------------------------------------------- CheckNormalURL

\* A retry loop that would give up one attempt early.
IsLastAttemptEarly(attempt) == attempt = MAX_RETRIES - 1

\* A retry loop that would not try again after a rejected signature.
IsLastAttemptOrForged(attempt) ==
    \/ attempt = MAX_RETRIES
    \/ Substr(last_error_, 0, Len(MsgSignatureFailed)) = MsgSignatureFailed

\* attempt == Config::MAX_RETRIES
IsLastAttempt(attempt) == attempt = MAX_RETRIES

\* One iteration of the retry loop: CheckNormalURLOnce(url, ...).
CheckNormalURL_Attempt ==
    /\ In("CheckNormalURL", "attempt")
    /\ Top.idx <= MAX_RETRIES
    /\ \E e \in PostBehaviours(Top.url) :
         LET earlier == NonceValue(((rng + NonceSpace - 2) % NonceSpace) + 1)
             r == CheckNormalURLOnce(Top.url, NonceValue(rng), earlier, e)
         IN  /\ att' = [made |-> TRUE, url |-> Top.url,
                        generated |-> IF e.gen = "ok" THEN NonceValue(rng)
                                      ELSE <<>>,
                        earlier |-> earlier, env |-> e, res |-> r]
             /\ last_error_' = LastErrorAfter(last_error_, r)
             /\ failure' = IF r.ok THEN failure ELSE r.error
             /\ ret' = Returned("CheckNormalURLOnce", r.ok, r.domain, Top)
             /\ Record(r.io)
             /\ rng' = IF e.gen = "ok" THEN (rng % NonceSpace) + 1 ELSE rng
    /\ stack' = SetTop([Top EXCEPT !.pc = "attempted", !.tries = @ + 1])
    /\ UNCHANGED <<url_list_, network_client_, api, pass>>
    /\ UNCHANGED <<host, bench, threads>>

\* A retry loop that would sleep the retry delay before it returns true.
CheckNormalURL_SuccessDelayed ==
    /\ In("CheckNormalURL", "attempted")
    /\ Succeeded(ret)
    /\ stack' = Pop
    /\ ret' = Returned("CheckNormalURL", TRUE, ret.domain,
                       [Top EXCEPT !.delays = @ + 1])
    /\ Record(<<SleepEvent(RETRY_DELAY_MS)>>)
    /\ UNCHANGED <<url_list_, network_client_, last_error_, api, rng, att,
                   failure, pass>>
    /\ UNCHANGED <<host, bench, threads>>

\* The attempt succeeded: return true.
CheckNormalURL_Success ==
    /\ In("CheckNormalURL", "attempted")
    /\ Succeeded(ret)
    /\ stack' = Pop
    /\ ret' = Returned("CheckNormalURL", TRUE, ret.domain, Top)
    /\ Record(<<>>)
    /\ UNCHANGED <<url_list_, network_client_, last_error_, api, rng, att,
                   failure, pass>>
    /\ UNCHANGED <<host, bench, threads>>

\* The last attempt failed: give up, return false.
CheckNormalURL_GiveUp ==
    /\ In("CheckNormalURL", "attempted")
    /\ ~Succeeded(ret)
    /\ IsLastAttempt(Top.idx)
    /\ stack' = Pop
    /\ ret' = Returned("CheckNormalURL", FALSE, <<>>, Top)
    /\ Record(<<>>)
    /\ UNCHANGED <<url_list_, network_client_, last_error_, api, rng, att,
                   failure, pass>>
    /\ UNCHANGED <<host, bench, threads>>

\* An earlier attempt failed: sleep RETRY_DELAY_MS, ++attempt.
CheckNormalURL_Retry ==
    /\ In("CheckNormalURL", "attempted")
    /\ ~Succeeded(ret)
    /\ ~IsLastAttempt(Top.idx)
    /\ stack' = SetTop([Top EXCEPT !.pc = "attempt", !.idx = @ + 1,
                                   !.delays = @ + 1])
    /\ ret' = NoRet
    /\ Record(<<SleepEvent(RETRY_DELAY_MS)>>)
    /\ UNCHANGED <<url_list_, network_client_, last_error_, api, rng, att,
                   failure, pass>>
    /\ UNCHANGED <<host, bench, threads>>

\* ----------------------------------------------------------- CheckListURL

\* A list checker that would enter its loop with whatever the parser gave,
\* an empty list included.
CheckListURL_GetLoopsOnEmpty ==
    /\ In("CheckListURL", "get")
    /\ \E g \in GetBehaviours(ActualURL(Top.url)) :
         LET actual_url == ActualURL(Top.url)
             sub_urls == ParsedBody[g.body]
             failed == g.get # "ok"
             error ==
                 IF g.get = "throw" THEN MsgGetException \o actual_url
                 ELSE MsgGetFailed \o actual_url \o MsgSep \o TransportError
         IN  /\ last_error_' = IF failed THEN error ELSE last_error_
             /\ failure' = IF failed THEN error ELSE failure
             /\ stack' = IF failed THEN Pop
                         ELSE SetTop([Top EXCEPT !.pc = "iter",
                                                 !.sub_urls = sub_urls])
             /\ ret' = IF failed
                       THEN Returned("CheckListURL", FALSE, <<>>, Top)
                       ELSE NoRet
             /\ Record(<<GetEvent(actual_url)>>)
    /\ UNCHANGED <<url_list_, network_client_, api, rng, att, pass>>
    /\ UNCHANGED <<host, bench, threads>>

\* A list checker that would try its GET again after a failed one.
CheckListURL_GetRetrying ==
    /\ In("CheckListURL", "get")
    /\ \E g \in GetBehaviours(ActualURL(Top.url)) :
         LET actual_url == ActualURL(Top.url)
             sub_urls == ParsedBody[g.body]
             error ==
                 IF g.get = "throw" THEN MsgGetException \o actual_url
                 ELSE IF g.get = "fail"
                 THEN MsgGetFailed \o actual_url \o MsgSep \o TransportError
                 ELSE MsgListEmpty \o actual_url
         IN  /\ last_error_' = IF g.get # "ok" \/ sub_urls = <<>> THEN error
                                ELSE last_error_
             /\ failure' = IF g.get # "ok" \/ sub_urls = <<>> THEN error
                            ELSE failure
             /\ stack' = IF g.get # "ok" THEN stack
                         ELSE IF sub_urls = <<>> THEN Pop
                         ELSE SetTop([Top EXCEPT !.pc = "iter",
                                                 !.sub_urls = sub_urls])
             /\ ret' = IF g.get = "ok" /\ sub_urls = <<>>
                       THEN Returned("CheckListURL", FALSE, <<>>, Top)
                       ELSE NoRet
             /\ Record(<<GetEvent(actual_url)>>)
    /\ UNCHANGED <<url_list_, network_client_, api, rng, att, pass>>
    /\ UNCHANGED <<host, bench, threads>>

\* The GET of the list and ParseURLList over its body.
CheckListURL_Get ==
    /\ In("CheckListURL", "get")
    /\ \E g \in GetBehaviours(ActualURL(Top.url)) :
         LET actual_url == ActualURL(Top.url)
             sub_urls == ParsedBody[g.body]
             failed == g.get # "ok" \/ sub_urls = <<>>
             error ==
                 IF g.get = "throw" THEN MsgGetException \o actual_url
                 ELSE IF g.get = "fail"
                 THEN MsgGetFailed \o actual_url \o MsgSep \o TransportError
                 ELSE MsgListEmpty \o actual_url
         IN  /\ last_error_' = IF failed THEN error ELSE last_error_
             /\ failure' = IF failed THEN error ELSE failure
             /\ stack' = IF failed THEN Pop
                         ELSE SetTop([Top EXCEPT !.pc = "iter",
                                                 !.sub_urls = sub_urls])
             /\ ret' = IF failed
                       THEN Returned("CheckListURL", FALSE, <<>>, Top)
                       ELSE NoRet
             /\ Record(<<GetEvent(actual_url)>>)
    /\ UNCHANGED <<url_list_, network_client_, api, rng, att, pass>>
    /\ UNCHANGED <<host, bench, threads>>

\* A list checker that would add each sub-URL it checks to url_list_.
CheckListURL_CheckURLMerging ==
    /\ In("CheckListURL", "iter")
    /\ Top.idx <= Len(Top.sub_urls)
    /\ Call(Top.sub_urls[Top.idx], SubDepth(Top.depth),
            [Top EXCEPT !.pc = "called"])
    /\ Record(<<>>)
    /\ url_list_' = Append(url_list_, Top.sub_urls[Top.idx])
    /\ UNCHANGED <<network_client_, api, rng, att, pass>>
    /\ UNCHANGED <<host, bench, threads>>

\* for (const auto& sub_url : sub_urls): CheckURL(sub_url, ..., depth + 1)
CheckListURL_CheckURL ==
    /\ In("CheckListURL", "iter")
    /\ Top.idx <= Len(Top.sub_urls)
    /\ Call(Top.sub_urls[Top.idx], SubDepth(Top.depth),
            [Top EXCEPT !.pc = "called"])
    /\ Record(<<>>)
    /\ UNCHANGED <<url_list_, network_client_, api, rng, att, pass>>
    /\ UNCHANGED <<host, bench, threads>>

\* A list checker that would go on with the next sub-URL after a success.
CheckListURL_SuccessGoesOn ==
    /\ In("CheckListURL", "called")
    /\ Succeeded(ret)
    /\ stack' = SetTop([Top EXCEPT !.pc = "iter", !.idx = NextInList(@)])
    /\ ret' = NoRet
    /\ Record(<<>>)
    /\ UNCHANGED <<url_list_, network_client_, last_error_, api, rng, att,
                   failure, pass>>
    /\ UNCHANGED <<host, bench, threads>>

\* The sub-URL succeeded: domain = sub_domain, return true.
CheckListURL_Success ==
    /\ In("CheckListURL", "called")
    /\ Succeeded(ret)
    /\ stack' = Pop
    /\ ret' = Returned("CheckListURL", TRUE, ret.domain, Top)
    /\ Record(<<>>)
    /\ UNCHANGED <<url_list_, network_client_, last_error_, api, rng, att,
                   failure, pass>>
    /\ UNCHANGED <<host, bench, threads>>

\* A list checker that would go to the next sub-URL without the delay.
CheckListURL_NextURLAtOnce ==
    /\ In("CheckListURL", "called")
    /\ ~Succeeded(ret)
    /\ stack' = SetTop([Top EXCEPT !.pc = "iter", !.idx = NextInList(@)])
    /\ ret' = NoRet
    /\ att' = NoAttempt
    /\ Record(<<>>)
    /\ UNCHANGED <<url_list_, network_client_, last_error_, api, rng, failure,
                   pass>>
    /\ UNCHANGED <<host, bench, threads>>

\* The sub-URL failed: sleep URL_INTERVAL, go on with the next sub-URL.
CheckListURL_NextURL ==
    /\ In("CheckListURL", "called")
    /\ ~Succeeded(ret)
    /\ stack' = SetTop([Top EXCEPT !.pc = "iter", !.idx = NextInList(@)])
    /\ ret' = NoRet
    /\ att' = NoAttempt
    /\ Record(<<SleepEvent(URL_INTERVAL)>>)
    /\ UNCHANGED <<url_list_, network_client_, last_error_, api, rng, failure,
                   pass>>
    /\ UNCHANGED <<host, bench, threads>>

\* All URLs of the sub-list failed: set the error, return false.
CheckListURL_AllFailed ==
    /\ In("CheckListURL", "iter")
    /\ Top.idx > Len(Top.sub_urls)
    /\ last_error_' = MsgListAllFailed \o ActualURL(Top.url)
    /\ failure' = MsgListAllFailed \o ActualURL(Top.url)
    /\ stack' = Pop
    /\ ret' = Returned("CheckListURL", FALSE, <<>>, Top)
    /\ Record(<<>>)
    /\ UNCHANGED <<url_list_, network_client_, api, rng, att, pass>>
    /\ UNCHANGED <<host, bench, threads>>

\* ---------------------------------------------------------- specification

\* No call from the host's own thread yet. raced: the worker thread was
\* inside GetFinalServer when the call went into the detector; freed: the
\* detector had been deleted.
NoSide ==
    [op |-> "none", rc |-> 0, out |-> <<>>, raced |-> FALSE, freed |-> FALSE,
     calls |-> 0]

\* After passgfw_create(): the built-in list, the platform's network client
\* (or none), no error, nothing running.
Created ==
    /\ side = NoSide
    /\ alive = TRUE
    /\ aborted = FALSE
    /\ url_list_ \in GetBuiltinURLs
    /\ network_client_ \in BOOLEAN
    /\ last_error_ = <<>>
    /\ stack = <<>>
    /\ ret = NoRet
    /\ api = ApiResult("create", 0, 0, FALSE, <<>>)
    /\ given = NoArgs
    /\ rng = 1
    /\ att = NoAttempt
    /\ failure = <<>>
    /\ io = <<>>
    /\ trace = <<>>
    /\ pass = "none"
    /\ posted = FALSE

\* No function is applied on its own.
NoInput == [kind |-> "none", value |-> <<>>]

Init ==
    /\ Created
    /\ applied = "none"
    /\ input = NoInput
    /\ output = <<>>

\* The steps of the thread that runs GetFinalServer.
Step ==
    \/ GetFinalServer_CheckURL
    \/ GetFinalServer_Return
    \/ GetFinalServer_NextURL
    \/ GetFinalServer_AllFailed
    \/ CheckNormalURL_Attempt
    \/ CheckNormalURL_Success
    \/ CheckNormalURL_GiveUp
    \/ CheckNormalURL_Retry
    \/ CheckListURL_Get
    \/ CheckListURL_CheckURL
    \/ CheckListURL_Success
    \/ CheckListURL_NextURL
    \/ CheckListURL_AllFailed

\* The calls of the host, made while no discovery call is running.
HostCall ==
    \/ passgfw_get_final_server
    \/ passgfw_set_url_list
    \/ passgfw_add_url
    \/ passgfw_get_last_error

Next == Step \/ HostCall

Spec == Init /\ [][Next]_vars

\* Every network call and every sleep returns: the running call keeps
\* taking steps.
LiveSpec == Spec /\ WF_vars(Step)

\* ------------------------------------------------- functions on their own

\* The pieces texts are put together from: list contents from the marker, a
\* URL, a delimiter with a URL and a blank behind it, blanks, a line end, a
\* comment sign and a URL of another scheme; URLs from a scheme name, the
\* scheme delimiter, a slash, a name with a port and a name.
ContentTokens ==
    {marker, HTTP \o <<"a">>, <<"|">> \o HTTPS \o <<"b", " ">>, <<"\t", " ">>,
     <<"\r", "\n">>, <<"#">>, <<"f", "t", "p">> \o SchemeDelim \o <<"z">>}
URLTokens == {<<"h">>, SchemeDelim, <<"/">>, <<"a", ":", "8">>, <<"a">>}

\* The tokens of ts, one after the other, as one string.
RECURSIVE Joined(_)
Joined(ts) == IF ts = <<>> THEN <<>> ELSE Head(ts) \o Joined(Tail(ts))

\* Every text of at most MaxTokens tokens.
Texts(tokens) ==
    {Joined(ts) : ts \in UNION {[1..n -> tokens] : n \in 0..MaxTokens}}

\* Client data of n characters, no two neighbours alike.
ClientData(n) == [i \in 1..n |-> Digits[((i - 1) % 9) + 1]]

\* Lengths at both ends and around MAX_CLIENT_DATA_SIZE.
DataLengths ==
    (0..MaxOver)
        \cup ((MAX_CLIENT_DATA_SIZE - MaxOver)..(MAX_CLIENT_DATA_SIZE + MaxOver))

\* Endpoints handed to CheckURL: a URL, a list, the lone "#" and "".
Endpoints == {GoodURL, ListURL, HashURL, EmptyURL}

Inputs ==
    {[kind |-> "content", value |-> c] : c \in Texts(ContentTokens)}
        \cup {[kind |-> "endpoint", value |-> u] : u \in Endpoints}
        \cup {[kind |-> "world", value |-> w] : w \in Worlds}
        \cup {[kind |-> "url", value |-> u] : u \in Texts(URLTokens)}
        \cup {[kind |-> "data", value |-> ClientData(n)] : n \in DataLengths}

\* A freshly created detector and one input for one of its functions.
FunctionInit ==
    /\ Created
    /\ url_list_ = <<BadURL, GoodURL>>
    /\ network_client_
    /\ applied = "none"
    /\ input \in Inputs
    /\ output = <<>>

ApplyParseURLList ==
    /\ applied = "none"
    /\ input.kind = "content"
    /\ applied' = "ParseURLList"
    /\ output' = ParseURLList(input.value)
    /\ UNCHANGED <<program, input, threads>>

ApplyExtractDomain ==
    /\ applied = "none"
    /\ input.kind = "url"
    /\ applied' = "ExtractDomain"
    /\ output' = ExtractDomain(input.value)
    /\ UNCHANGED <<program, input, threads>>

\* The payload of an attempt of the detector called with the client data.
ApplyPayload ==
    /\ applied = "none"
    /\ input.kind = "data"
    /\ applied' = "Payload"
    /\ output' = Payload(NonceValue(1), input.value)
    /\ UNCHANGED <<program, input, threads>>

\* The same for the detector of src/client.
ApplyClientPayload ==
    /\ applied = "none"
    /\ input.kind = "data"
    /\ applied' = "ClientPayload"
    /\ output' = ClientPayload(NonceValue(1), input.value)
    /\ UNCHANGED <<program, input, threads>>

\* CheckURL for a top-level endpoint, up to the first network call.
ApplyCheckURL ==
    /\ applied = "none"
    /\ input.kind = "endpoint"
    /\ applied' = "CheckURL"
    /\ output' = CheckURL(input.value, 0, network_client_)
    /\ UNCHANGED <<program, input, threads>>

\* The same for the detector of src/client.
ApplyClientCheckURL ==
    /\ applied = "none"
    /\ input.kind = "endpoint"
    /\ applied' = "ClientCheckURL"
    /\ output' = ClientCheckURL(input.value, network_client_)
    /\ UNCHANGED <<program, input, threads>>

\* The first pass of the detector of src/client in a world.
ApplyClientGetFinalServer ==
    /\ applied = "none"
    /\ input.kind = "world"
    /\ applied' = "ClientGetFinalServer"
    /\ output' = ClientGetFinalServer(input.value, network_client_)
    /\ UNCHANGED <<program, input, threads>>

FunctionNext ==
    \/ ApplyParseURLList
    \/ ApplyExtractDomain
    \/ ApplyPayload
    \/ ApplyClientPayload
    \/ ApplyCheckURL
    \/ ApplyClientCheckURL
    \/ ApplyClientGetFinalServer

FunctionSpec == FunctionInit /\ [][FunctionNext]_vars

\* ------------------------------------------- the host on a second thread

\* The C interface takes no lock and keeps no record of a running call or of
\* a deleted detector: a call from the host's own thread goes into the
\* detector whatever the worker thread in passgfw_get_final_server is doing.
SideResult(op, rc, out) ==
    [op |-> op, rc |-> rc, out |-> out, raced |-> Running, freed |-> ~alive,
     calls |-> side.calls + 1]

\* Some call has gone into the detector while the worker thread was inside
\* GetFinalServer or after the delete, or the worker thread is inside a
\* deleted detector: the behaviour of the program is undefined from there.
Undefined == side.raced \/ side.freed \/ (~alive /\ Running)

\* Bytes that are no value the string ever had.
Torn == <<"?">>

\* What copying a std::string gives: its value, or, when the copy is
\* unordered with an assignment by the other thread or reads released
\* storage, possibly bytes of no value.
RacyRead(value) == IF Running \/ ~alive THEN {value, Torn} ELSE {value}

Thread_add_url ==
    /\ ~aborted
    /\ side.calls < MaxCalls
    /\ \E url \in HostURLs :
         /\ Len(url_list_) < MaxURLs
         /\ url_list_' = AddURL(url_list_, url)
         /\ side' = SideResult("add_url", 0, <<>>)
    /\ UNCHANGED <<network_client_, last_error_, stack, ret, api, given, rng,
                   att, failure, io, trace, pass, posted, alive, aborted>>
    /\ UNCHANGED bench

Thread_set_url_list ==
    /\ ~aborted
    /\ side.calls < MaxCalls
    /\ \E a \in SetArgs :
         /\ a.detector /\ a.urls_given /\ a.count > 0
         /\ url_list_' = SetURLList(url_list_, NonNullEntries(a.urls, 0, a.count))
         /\ side' = SideResult("set_url_list", 0, <<>>)
    /\ UNCHANGED <<network_client_, last_error_, stack, ret, api, given, rng,
                   att, failure, io, trace, pass, posted, alive, aborted>>
    /\ UNCHANGED bench

Thread_get_last_error ==
    /\ ~aborted
    /\ side.calls < MaxCalls
    /\ \E error \in RacyRead(GetLastError) :
         side' = SideResult("get_last_error", 0, CopyToBuffer(error, MaxBuf))
    /\ UNCHANGED <<url_list_, network_client_, last_error_, stack, ret, api,
                   given, rng, att, failure, io, trace, pass, posted, alive,
                   aborted>>
    /\ UNCHANGED bench

\* delete d, for a handle that is not NULL; the host's copy of the handle
\* keeps its value.
passgfw_destroy ==
    /\ ~aborted
    /\ side.calls < MaxCalls
    /\ alive' = FALSE
    /\ side' = SideResult("destroy", 0, <<>>)
    /\ UNCHANGED <<program, bench, aborted>>

\* One outcome of undefined behaviour: the process ends abnormally.
Abort ==
    /\ ~aborted
    /\ Undefined
    /\ aborted' = TRUE
    /\ UNCHANGED <<program, bench, side, alive>>

\* The worker thread: it calls passgfw_get_final_server and runs it.
Worker == ~aborted /\ (passgfw_get_final_server \/ Step)

ThreadedNext ==
    \/ Worker
    \/ Thread_add_url
    \/ Thread_set_url_list
    \/ Thread_get_last_error
    \/ passgfw_destroy
    \/ Abort

\* A detector with its network client and the built-in list, a worker
\* thread and the host's own thread.
ThreadedInit ==
    /\ Init
    /\ url_list_ = <<BadURL, GoodURL>>
    /\ network_client_

ThreadedSpec == ThreadedInit /\ [][ThreadedNext]_vars

\* --------------------------------------------- the two variants, one world

\* The step keeps to the world in input: the collaborators of an attempt do
\* what the world says of its URL, and the GET of a list gives what the
\* world says of its URL.
InWorld ==
    LET w == input.value
        g == WorldGet(w, ActualURL(Top.url))
        sub_urls == ParsedBody[g.body]
        error ==
            IF g.get = "throw" THEN MsgGetException \o ActualURL(Top.url)
            ELSE IF g.get = "fail"
            THEN MsgGetFailed \o ActualURL(Top.url) \o MsgSep
                     \o TransportError
            ELSE MsgListEmpty \o ActualURL(Top.url)
    IN  /\ In("CheckNormalURL", "attempt") =>
              att'.env = WorldPost(w, Top.url)
        /\ In("CheckListURL", "get") =>
              IF g.get = "ok" /\ sub_urls # <<>>
              THEN /\ Len(stack') = Len(stack)
                   /\ stack'[Len(stack')].sub_urls = sub_urls
              ELSE /\ stack' = Pop
                   /\ last_error_' = error

\* The detector of src/clients/legacy-cpp running in the world.
WorldStep == Step /\ InWorld

\* A detector whose list the host has set to the world's, with the
\* platform's network client or none, nothing running.
VariantInit ==
    /\ input \in {i \in Inputs : i.kind = "world"}
    /\ url_list_ = input.value.urls
    /\ network_client_ \in BOOLEAN
    /\ side = NoSide
    /\ alive = TRUE
    /\ aborted = FALSE
    /\ last_error_ = <<>>
    /\ stack = <<>>
    /\ ret = NoRet
    /\ api = ApiResult("set_url_list", 0, 0, FALSE, <<>>)
    /\ given = NoArgs
    /\ rng = 1
    /\ att = NoAttempt
    /\ failure = <<>>
    /\ io = <<>>
    /\ trace = <<>>
    /\ pass = "none"
    /\ posted = FALSE
    /\ applied = "none"
    /\ output = <<>>

\* The host calls the legacy detector, which runs step by step, and the
\* detector of src/client makes its pass over the same world.
VariantNext ==
    \/ passgfw_get_final_server
    \/ WorldStep
    \/ ApplyClientGetFinalServer

VariantSpec == VariantInit /\ [][VariantNext]_vars

\* ------------------------------------------------------------- properties

\* passgfw_get_final_server has returned 0 with a domain in the buffer.
Found == api.op = "get_final_server" /\ api.done /\ api.rc = 0

\* The latest attempt got a response whose signature was accepted and whose
\* data has both keys: it reached the comparison of the nonces.
ReachedCompare ==
    /\ att.made
    /\ att.env.gen = "ok" /\ att.env.json1 = "ok" /\ att.env.enc = "ok"
    /\ att.env.json2 = "ok" /\ att.env.post = "ok" /\ att.env.parse1 = "ok"
    /\ att.env.has_data /\ att.env.has_signature /\ att.env.sig = "valid"
    /\ att.env.parse2 = "ok" /\ att.env.has_nonce /\ att.env.has_domain

\* The nonce the server echoed to the latest attempt.
Echoed == EchoedNonce(att.env, att.generated, att.earlier)

\* s starts with prefix.
StartsWith(s, prefix) == Substr(s, 0, Len(prefix)) = prefix

\* The POSTs among events, in order.
Posts(events) == SelectSeq(events, LAMBDA ev : ev.op = "POST")

\* C1: whenever get_final_server returns a domain, it is the server_domain
\* of the response of one single attempt whose signature was accepted and
\* whose echoed nonce is the nonce generated by that same attempt, cut to
\* the caller's buffer; it is not taken from the endpoint URL.
C1_ReturnedDomainIsVerified ==
    Found =>
        /\ ReachedCompare
        /\ att.res.ok
        /\ att.generated # <<>>
        /\ Echoed = att.generated
        /\ att.res.returned_nonce = att.generated
        /\ att.res.domain = att.env.domain
        /\ api.written
        /\ api.out = CopyToBuffer(att.env.domain, api.size)

\* C1 happens: a domain asserted by "http://w" has been returned.
C1_Witness ==
    /\ Found
    /\ att.url = WildURL
    /\ api.out = CopyToBuffer(WildDomain, api.size)
    /\ api.out # CopyToBuffer(ExtractDomain(WildURL), api.size)

\* C2: an attempt whose response carries a valid signature and a nonce that
\* differs from the generated one fails with the nonce-mismatch error and
\* yields no domain.
C2_NonceMismatchFails ==
    (In("CheckNormalURL", "attempted") /\ ReachedCompare
        /\ Echoed # att.generated) =>
        /\ ret.fn = "CheckNormalURLOnce"
        /\ ret.st = "fail"
        /\ ret.domain = <<>>
        /\ ~att.res.ok
        /\ last_error_ = NonceMismatchText(att.url, att.generated, Echoed)

\* C2 happens: a validly signed response echoed a junk nonce.
C2_Witness ==
    /\ In("CheckNormalURL", "attempted")
    /\ ReachedCompare
    /\ att.env.echo = "junk"
    /\ ret.st = "fail"

\* C3: every attempt, retries included, uses the nonce it generated itself
\* and generates it before its POST (no POST without a generated nonce); a
\* validly signed response echoing the nonce of an earlier attempt is
\* rejected with the nonce-mismatch error.
C3_FreshNoncePerAttempt ==
    (In("CheckNormalURL", "attempted") /\ att.made) =>
        /\ att.env.gen = "ok" => att.res.random_data = att.generated
        /\ att.res.io # <<>> =>
               /\ att.generated # <<>>
               /\ att.res.random_data = att.generated
        /\ (ReachedCompare /\ att.env.echo = "stale"
                /\ att.earlier # att.generated) =>
               /\ ret.st = "fail"
               /\ last_error_ =
                      NonceMismatchText(att.url, att.generated, att.earlier)

\* C3 happens: a retry was answered with the nonce of the attempt before it.
C3_Witness ==
    /\ In("CheckNormalURL", "attempted")
    /\ Top.idx >= 2
    /\ ReachedCompare
    /\ att.env.echo = "stale"
    /\ att.earlier # att.generated
    /\ StartsWith(last_error_, MsgNonceMismatch)

\* C4: a running discovery call keeps running or returns 0 with the domain
\* of a successful attempt; a failed endpoint leaves the call running, and
\* no step of the call turns its result into an error.
C4_OnlyExitIsFound ==
    [][Running =>
          /\ Running' \/ (Found /\ api.written /\ att.res.ok
                            /\ api.out = CopyToBuffer(att.res.domain,
                                                      api.size))'
          /\ (ret.st = "fail")' => Running'
          /\ api'.rc = 0]_vars

\* C4 happens: the call returned in a later pass, after a pass in which every
\* endpoint failed.
C4_Witness == Found /\ pass = "later"

\* The EndpointSet holds a Direct endpoint that always verifies, and the
\* detector has its network client.
HasGoodEndpoint ==
    /\ network_client_
    /\ \E i \in 1..Len(url_list_) : url_list_[i] = GoodURL

\* C5: when the EndpointSet holds a Direct endpoint that answers every
\* attempt with a valid, nonce-matching assertion, a running call
\* eventually returns, whatever the other endpoints do.
C5_EventuallyReturns == (Running /\ HasGoodEndpoint) ~> Found

\* C5 happens: the call returned although a cyclic List endpoint came before
\* the good endpoint.
C5_Witness ==
    /\ Found
    /\ HasGoodEndpoint
    /\ url_list_ = <<CycleURL, GoodURL>>

\* C6: with the EndpointSet [bad, good] a returned call returned the domain
\* of good, in the first pass, after exactly MAX_RETRIES POSTs to bad
\* followed by one POST to good.
C6_BadThenGood ==
    (Found /\ url_list_ = <<BadURL, GoodURL>>) =>
        /\ api.out = CopyToBuffer(GoodDomain, api.size)
        /\ pass = "first"
        /\ Posts(trace) = [i \in 1..MAX_RETRIES |-> PostEvent(BadURL)]
                              \o <<PostEvent(GoodURL)>>

\* C6 happens: the call over [bad, good] returned into the long buffer.
C6_Witness ==
    /\ Found
    /\ url_list_ = <<BadURL, GoodURL>>
    /\ api.size = MaxBuf
    /\ api.out = GoodDomain

\* C7: when CheckNormalURL returns false from its retry loop it ran exactly
\* MAX_RETRIES attempts, all against its URL, slept MAX_RETRIES - 1 retry
\* delays and none after the last attempt, and last_error_ is the error of
\* the last attempt.
C7_RetryExhaustion ==
    /\ (ret.fn = "CheckNormalURL" /\ ret.st = "fail") =>
           /\ ret.tries = MAX_RETRIES
           /\ ret.delays = MAX_RETRIES - 1
           /\ io = <<>>
           /\ att.made /\ ~att.res.ok
           /\ last_error_ = att.res.error
    /\ In("CheckNormalURL", "attempted") =>
           /\ att.url = Top.url
           /\ Top.tries = Top.idx
           /\ Top.delays = Top.idx - 1
           /\ Top.idx <= MAX_RETRIES

\* C7 happens: "http://w" failed every attempt, the last one for another
\* reason than the first.
C7_Witness ==
    /\ ret.fn = "CheckNormalURL"
    /\ ret.st = "fail"
    /\ att.url = WildURL
    /\ att.env.sig = "invalid"
    /\ trace # Overflowed
    /\ \E i \in 1..Len(trace) : trace[i].op = "SLEEP"

\* C8: no checker runs at a depth above MAX_LIST_RECURSION_DEPTH, and the
\* depth error is raised exactly for the sub-URLs of a list at depth
\* MAX_LIST_RECURSION_DEPTH, without a network call; top-level endpoints
\* are at depth 0.
C8_RecursionBound ==
    /\ \A i \in 1..Len(stack) :
           /\ stack[i].depth <= MAX_LIST_RECURSION_DEPTH
           /\ i <= 2 => stack[i].depth = 0
    /\ (ret.fn = "CheckURL" /\ StartsWith(last_error_, MsgDepthExceeded)) =>
           /\ ret.st = "fail"
           /\ Top.fn = "CheckListURL"
           /\ Top.depth = MAX_LIST_RECURSION_DEPTH
           /\ io = <<>>

\* C8 happens: a list at depth MAX_LIST_RECURSION_DEPTH was fetched and its
\* sub-URL was rejected for its depth.
C8_Witness ==
    /\ ret.fn = "CheckURL"
    /\ StartsWith(last_error_, MsgDepthExceeded)
    /\ Top.fn = "CheckListURL"
    /\ Top.depth = MAX_LIST_RECURSION_DEPTH
    /\ Top.sub_urls # <<>>

KeepsEndpoints ==
    /\ Len(url_list_') >= Len(url_list_)
    /\ SubSeq(url_list_', 1, Len(url_list_)) = url_list_

\* C10 as stated: the EndpointSet never gets shorter and loses no endpoint.
C10_NeverShrinks ==
    [][/\ Len(url_list_') >= Len(url_list_)
       /\ \A i \in 1..Len(url_list_) :
              \E j \in 1..Len(url_list_') : url_list_'[j] = url_list_[i]]_vars

\* C10: every step other than a passgfw_set_url_list that returns 0 keeps
\* the endpoints in place, and passgfw_add_url returning 0 adds exactly one
\* at the end.
C10_ShrinksOnlyBySet ==
    [][/\ (api'.op = "set_url_list" /\ api'.rc = 0) \/ KeepsEndpoints
       /\ (api'.op = "add_url" /\ api'.rc = 0) =>
              Len(url_list_') = Len(url_list_) + 1]_vars

\* C10 happens: passgfw_add_url has added an endpoint to a list that was not
\* empty.
C10_Witness ==
    /\ api.op = "add_url"
    /\ api.rc = 0
    /\ Len(url_list_) >= 2

\* The activation of GetFinalServer in a running call.
Scan == stack[1]

\* C11: passgfw_add_url returning 0 puts its URL at the end of url_list_,
\* once more when it is already there, keeps every element in its place and
\* leaves last_error_ alone; a pass checks url_list_ front to back, each
\* top-level check on the element at the loop's position, which moves on by
\* one after a failure and starts over only behind the last element.
C11_AddAppendsOne ==
    [][/\ (api'.op = "add_url" /\ api'.rc = 0) =>
              /\ url_list_' = url_list_ \o <<given'.url>>
              /\ last_error_' = last_error_
       /\ (Running /\ Running') =>
              /\ \/ Scan'.idx = Scan.idx
                 \/ Scan'.idx = Scan.idx + 1 /\ ret.st = "fail"
                 \/ Scan'.idx = 1 /\ Scan.idx = Len(url_list_) + 1
              /\ (Len(stack) = 1 /\ Len(stack') = 2) =>
                     stack'[2].url = url_list_[Scan.idx]
              /\ Scan.idx \in 1..(Len(url_list_) + 1)]_vars

\* C11 happens: the URL added was already the only element, and an error of
\* an earlier call is still there.
C11_Witness ==
    /\ api.op = "add_url"
    /\ api.rc = 0
    /\ given.url = WildURL
    /\ url_list_ = <<WildURL, WildURL>>
    /\ last_error_ # <<>>

\* C12: after passgfw_set_url_list has returned 0, url_list_ is exactly the
\* non-NULL entries among the first count entries of the given array, in
\* their order: nothing of the list before the call is left.
C12_SetReplaces ==
    (api.op = "set_url_list" /\ api.rc = 0) =>
        url_list_ = SelectSeq(SubSeq(given.urls, 1, given.count),
                              LAMBDA u : u # NullPtr)

\* C12 happens: an array with a NULL entry has replaced the list.
C12_Witness ==
    /\ api.op = "set_url_list"
    /\ api.rc = 0
    /\ given.urls = <<NullPtr, GoodURL>>
    /\ given.count = 2
    /\ url_list_ = <<GoodURL>>

\* The string a buffer-based binding has to hand out: the error for
\* passgfw_get_last_error, the domain of the successful attempt for
\* passgfw_get_final_server.
Handed == IF api.op = "get_last_error" THEN last_error_ ELSE att.res.domain

\* C13: a buffer-based binding that has returned gave -1 and wrote nothing
\* when the handle or the buffer was NULL or the size not positive;
\* otherwise it gave 0 and the buffer holds the first min(length, size - 1)
\* characters of the string, the terminator behind them still inside the
\* buffer.
C13_BufferBindings ==
    (api.op \in {"get_final_server", "get_last_error"} /\ api.done) =>
        IF ~given.detector \/ ~given.out \/ given.size <= 0
        THEN api.rc = -1 /\ ~api.written
        ELSE /\ api.rc = 0
             /\ api.written
             /\ Len(api.out) = MinOf(Len(Handed), given.size - 1)
             /\ api.out = SubSeq(Handed, 1, Len(api.out))
             /\ Len(api.out) + 1 <= given.size

\* C13 happens: an error longer than the buffer has been cut to size - 1.
C13_Witness ==
    /\ api.op = "get_last_error"
    /\ api.rc = 0
    /\ Len(last_error_) >= given.size
    /\ Len(api.out) = given.size - 1
    /\ api.out # <<>>

\* C14: client data longer than MAX_CLIENT_DATA_SIZE reaches the payload of a
\* verification attempt as exactly its first MAX_CLIENT_DATA_SIZE characters,
\* and shorter client data reaches it unchanged, whichever detector builds
\* the payload.
C14_PayloadTruncated ==
    applied \in {"Payload", "ClientPayload"} =>
        /\ Len(output.client_data) = MinOf(Len(input.value), MAX_CLIENT_DATA_SIZE)
        /\ output.client_data = SubSeq(input.value, 1, Len(output.client_data))

\* The detector of src/client hands over more than MAX_CLIENT_DATA_SIZE
\* characters.
C14_Overlong ==
    /\ applied = "ClientPayload"
    /\ Len(input.value) = MAX_CLIENT_DATA_SIZE + 1
    /\ output.client_data = input.value

\* The positions (1-based) at which pat occurs in s.
Occurrences(s, pat) == {i \in 1..Len(s) : MatchAt(s, pat, i - 1)}

\* The first marker of the content and the first one behind it.
FirstMarker(content) ==
    CHOOSE i \in Occurrences(content, marker) :
        \A j \in Occurrences(content, marker) : i <= j
SecondMarker(content) ==
    CHOOSE i \in Occurrences(content, marker) :
        /\ i >= FirstMarker(content) + Len(marker)
        /\ \A j \in Occurrences(content, marker) :
               j >= FirstMarker(content) + Len(marker) => i <= j
HasMarkerPair(content) ==
    \E i, j \in Occurrences(content, marker) : j >= i + Len(marker)

\* What stands between the first two markers.
Body(content) ==
    SubSeq(content, FirstMarker(content) + Len(marker), SecondMarker(content) - 1)

Blank(s) == \A i \in 1..Len(s) : s[i] \in Whitespace

\* s without the whitespace at its ends.
Trimmed(s) ==
    IF Blank(s) THEN <<>>
    ELSE LET inked == {i \in 1..Len(s) : s[i] \notin Whitespace}
         IN  SubSeq(s, CHOOSE i \in inked : \A j \in inked : i <= j,
                       CHOOSE i \in inked : \A j \in inked : i >= j)

\* The pieces of s between the occurrences of the character ch, in order.
Pieces(s, ch) ==
    LET cuts == {0, Len(s) + 1} \cup {i \in 1..Len(s) : s[i] = ch}
        Nth(k) == CHOOSE c \in cuts : Cardinality({d \in cuts : d < c}) = k - 1
    IN  [k \in 1..(Cardinality(cuts) - 1) |-> SubSeq(s, Nth(k) + 1, Nth(k + 1) - 1)]

\* The trimmed pieces that begin with http:// or https://, in order.
HttpPieces(s, ch) ==
    SelectSeq([k \in 1..Len(Pieces(s, ch)) |-> Trimmed(Pieces(s, ch)[k])],
              LAMBDA u : StartsWith(u, HTTP) \/ StartsWith(u, HTTPS))

\* C15: for content with a pair of markers and a non-blank body between the
\* first two, ParseURLList returns exactly the '|'-separated pieces of that
\* body, each trimmed, that begin with http:// or https://, in their order;
\* nothing outside the markers is returned.
C15_MarkerMode ==
    (applied = "ParseURLList" /\ HasMarkerPair(input.value)
        /\ ~Blank(Body(input.value))) =>
            output = HttpPieces(Body(input.value), "|")

\* An empty piece and a piece with a blank behind it between the markers, a
\* URL in front of the first marker.
C15_Witness ==
    /\ applied = "ParseURLList"
    /\ input.value = HTTP \o <<"a">> \o marker \o <<"|">> \o HTTPS \o <<"b", " ">>
                         \o marker
    /\ output = <<HTTPS \o <<"b">>>>

\* C16: for content without a pair of markers, ParseURLList returns exactly
\* the trimmed lines that begin with http:// or https://, in their order;
\* empty lines, lines beginning with '#' and lines of another scheme are
\* dropped.
C16_FallbackMode ==
    (applied = "ParseURLList" /\ ~HasMarkerPair(input.value)) =>
        /\ output = HttpPieces(input.value, "\n")
        /\ \A k \in 1..Len(output) : output[k] # <<>> /\ output[k][1] # "#"

\* A line of another scheme and one URL line, both ending in "\r".
C16_Witness ==
    /\ applied = "ParseURLList"
    /\ input.value = <<"f", "t", "p">> \o SchemeDelim \o <<"z">> \o <<"\r", "\n">>
                         \o HTTP \o <<"a">> \o <<"\r", "\n">>
    /\ output = <<HTTP \o <<"a">>>>

\* C17: for a URL that contains "://", ExtractDomain returns what stands
\* between the first "://" and the next '/', or all that follows "://" when no
\* '/' follows, a port included; for a URL without "://" it returns the empty
\* string.
C17_DomainBetween ==
    applied = "ExtractDomain" =>
        LET url == input.value
            delims == Occurrences(url, SchemeDelim)
        IN  IF delims = {} THEN output = <<>>
            ELSE LET from == (CHOOSE i \in delims : \A j \in delims : i <= j) + 3
                     slashes == {i \in from..Len(url) : url[i] = "/"}
                 IN  IF slashes = {} THEN output = SubSeq(url, from, Len(url))
                     ELSE output =
                              SubSeq(url, from,
                                     (CHOOSE i \in slashes : \A j \in slashes : i <= j) - 1)

\* A host with a port in front of a path.
C17_Witness ==
    /\ applied = "ExtractDomain"
    /\ input.value = <<"h">> \o SchemeDelim \o <<"a", ":", "8">> \o <<"/">>
    /\ output = <<"a", ":", "8">>

\* C18: no call of add_url, set_url_list or get_last_error goes into the
\* detector while the worker thread is inside GetFinalServer, so nothing
\* interleaves with the scan's iteration over url_list_ or with its writes
\* to last_error_.
C18_NoConcurrentAccess ==
    side.op \in {"add_url", "set_url_list", "get_last_error"} => ~side.raced

\* C19: once the detector is deleted, no call goes into it and no running
\* GetFinalServer takes another step in it.
C19_NoUseAfterDestroy ==
    [][~alive => /\ ~Step
                 /\ api' # api => api'.rc = -1
                 /\ side' = side]_vars

\* The failures of an attempt that are compared: the transport fails, the
\* signature is rejected, the echoed nonce is another one.
ComparedFailures ==
    LET b == HonestAttempt(WildDomain)
    IN  {[b EXCEPT !.post = "fail"], [b EXCEPT !.sig = "invalid"],
         [b EXCEPT !.echo = "stale"], [b EXCEPT !.echo = "junk"]}

\* The latest attempt of the running call failed in one of these ways.
FailedCompared == Running /\ att.made /\ att.env \in ComparedFailures

\* C20: had the latest attempt failed in another of the compared ways, it
\* would have made the same request and failed as well, and what the scan
\* does next is fixed by its loop positions alone: after a failed attempt
\* the retry loop sleeps RETRY_DELAY_MS and tries again, or returns after
\* attempt MAX_RETRIES without a sleep, and the loop over the endpoints sleeps
\* URL_INTERVAL and goes on with the next one. Requests and sleeps do not
\* depend on the kind of failure.
C20_FailureKindUnobservable ==
    [][FailedCompared =>
           /\ \A e \in ComparedFailures :
                  LET r == CheckNormalURLOnce(att.url, att.generated,
                                              att.earlier, e)
                  IN  ~r.ok /\ r.io = att.res.io /\ r.io = <<PostEvent(att.url)>>
           /\ In("CheckNormalURL", "attempted") =>
                  IF Top.idx = MAX_RETRIES
                  THEN io' = <<>> /\ stack' = Pop /\ ret'.st = "fail"
                  ELSE /\ io' = <<SleepEvent(RETRY_DELAY_MS)>>
                       /\ stack' = SetTop([Top EXCEPT !.pc = "attempt",
                                                      !.idx = @ + 1,
                                                      !.delays = @ + 1])
           /\ (In("GetFinalServer", "called") \/ In("CheckListURL", "called")) =>
                  /\ io' = <<SleepEvent(URL_INTERVAL)>>
                  /\ stack' = SetTop([Top EXCEPT !.pc = "iter", !.idx = @ + 1])]_vars

\* A first attempt whose signature was rejected is followed by the sleep of
\* the retry loop.
C20_Witness ==
    /\ In("CheckNormalURL", "attempt")
    /\ Top.idx = 2
    /\ att.made /\ att.env.sig = "invalid"
    /\ io = <<SleepEvent(RETRY_DELAY_MS)>>

\* The latest attempt got a response with both keys and handed it to
\* VerifySignature, which returned.
ReachedVerify ==
    /\ att.made
    /\ att.env.gen = "ok" /\ att.env.json1 = "ok" /\ att.env.enc = "ok"
    /\ att.env.json2 = "ok" /\ att.env.post = "ok" /\ att.env.parse1 = "ok"
    /\ att.env.has_data /\ att.env.has_signature /\ att.env.sig # "throw"

\* The responses that differ from that of the latest attempt only in what
\* their data field holds: whether it parses, its keys, the nonce it echoes.
SameSignature ==
    {[att.env EXCEPT !.parse2 = p, !.has_nonce = hn, !.has_domain = hd,
                     !.echo = n] :
        p \in {"ok", "throw"}, hn \in BOOLEAN, hd \in BOOLEAN,
        n \in {"own", "stale", "junk"}}

\* C21: an attempt whose response VerifySignature rejects fails with the
\* signature error after its one POST, reads no nonce and yields no domain,
\* and it does so whatever the data field holds (not parsable, keys missing,
\* the attempt's own nonce or another one): the signature is checked before
\* the data is parsed and before the nonces are compared.
C21_SignatureBeforeData ==
    (ReachedVerify /\ att.env.sig = "invalid") =>
        /\ ~att.res.ok
        /\ att.res.error = MsgSignatureFailed \o att.url
        /\ att.res.domain = <<>>
        /\ att.res.returned_nonce = <<>>
        /\ att.res.io = <<PostEvent(att.url)>>
        /\ \A e \in SameSignature :
               CheckNormalURLOnce(att.url, att.generated, att.earlier, e) = att.res
        /\ In("CheckNormalURL", "attempted") =>
               ret.st = "fail" /\ ret.domain = <<>> /\ last_error_ = att.res.error
        /\ ~Found

\* C21 happens: a response that echoes the attempt's own nonce was rejected
\* for its signature.
C21_Witness ==
    /\ In("CheckNormalURL", "attempted")
    /\ ReachedVerify
    /\ att.env.sig = "invalid"
    /\ att.env.echo = "own"
    /\ StartsWith(last_error_, MsgSignatureFailed)

\* CheckNormalURL has just returned true to GetFinalServer for the first
\* endpoint of the first pass: the recorded events are those of this one
\* call of CheckNormalURL.
FirstEndpointVerified ==
    /\ Len(stack) = 1 /\ In("GetFinalServer", "called")
    /\ Top.idx = 1 /\ pass = "first" /\ trace # Overflowed
    /\ ret.fn = "CheckNormalURL" /\ ret.st = "ok"

Sleeps(events) == SelectSeq(events, LAMBDA ev : ev.op = "SLEEP")

\* C22 as stated: when attempt k succeeds, exactly k POSTs and k - 1 retry
\* delays have occurred.
C22_ExactlyKPosts ==
    FirstEndpointVerified =>
        /\ Len(Posts(trace)) = ret.tries
        /\ Len(Sleeps(trace)) = ret.tries - 1

\* C22: when attempt k of CheckNormalURL succeeds, it returns true at once:
\* k attempts have been made, each with at most one POST and the successful
\* one with exactly one, which is the last event; k - 1 retry delays have
\* been slept, one after each failed attempt; and the step that returns
\* makes no attempt and sleeps nothing.
C22_SuccessShortCircuits ==
    [][/\ (In("CheckNormalURL", "attempted") /\ Succeeded(ret)) =>
              /\ stack' = Pop
              /\ io' = <<>>
              /\ ret'.fn = "CheckNormalURL" /\ ret'.st = "ok"
              /\ ret'.domain = ret.domain
              /\ att' = att
       /\ (ret.fn = "CheckNormalURL" /\ ret.st = "ok") =>
              /\ ret.tries \in 1..MAX_RETRIES
              /\ ret.delays = ret.tries - 1
              /\ att.res.ok /\ att.res.io = <<PostEvent(att.url)>>
       /\ FirstEndpointVerified =>
              /\ Len(Posts(trace)) \in 1..ret.tries
              /\ Len(Sleeps(trace)) = ret.tries - 1
              /\ trace[Len(trace)] = PostEvent(att.url)
              /\ \A i \in 1..Len(trace) :
                     trace[i] \in {PostEvent(att.url), SleepEvent(RETRY_DELAY_MS)}]_vars

\* C22 happens: the second attempt succeeded after a first one that failed
\* at the transport.
C22_Witness ==
    /\ FirstEndpointVerified
    /\ ret.tries = 2
    /\ trace = <<PostEvent(WildURL), SleepEvent(RETRY_DELAY_MS), PostEvent(WildURL)>>

\* C23: the endpoint GetFinalServer dispatches is at depth 0, and a checker
\* dispatched by a list checker at depth d is at depth d + 1: the k-th
\* checker of a chain is at depth k - 1, for the first and for every later
\* sub-URL of a list and for every endpoint of every pass; no step changes
\* the depth of an activation, and a sub-URL is rejected for its depth
\* exactly when its list is at depth MAX_LIST_RECURSION_DEPTH.
C23_DepthByValue ==
    [][/\ \A i \in 2..Len(stack) :
              /\ stack[i].depth = i - 2
              /\ i < Len(stack) => stack[i].fn = "CheckListURL"
              /\ (i > 2 /\ stack[i - 1].fn = "CheckListURL") =>
                     stack[i].depth = stack[i - 1].depth + 1
       /\ Running => stack[1].fn = "GetFinalServer" /\ stack[1].depth = 0
       /\ \A i \in 1..Len(stack) :
              i <= Len(stack') => stack'[i].depth = stack[i].depth
       /\ (Running' /\ ret'.fn = "CheckURL"
              /\ StartsWith(last_error_', MsgDepthExceeded)) =>
                  Top'.depth = MAX_LIST_RECURSION_DEPTH]_vars

\* C23 happens: the second sub-URL of a list that is itself the sub-URL of a
\* list is checked, after its elder sibling has failed.
C23_Witness ==
    /\ Len(stack) = 4
    /\ stack[2].fn = "CheckListURL" /\ stack[3].fn = "CheckListURL"
    /\ stack[3].idx = 2
    /\ stack[4].depth = 2

\* A list checker at depth MAX_LIST_RECURSION_DEPTH is about to dispatch a
\* sub-URL.
AtDeepest ==
    /\ In("CheckListURL", "iter")
    /\ Top.depth = MAX_LIST_RECURSION_DEPTH
    /\ Top.idx <= Len(Top.sub_urls)

\* C24: the CheckURL call for a sub-URL of a list at depth
\* MAX_LIST_RECURSION_DEPTH returns false at once with the depth error: no
\* checker is entered, no attempt is made and no nonce generated, and no GET,
\* POST or sleep happens in that call. The depth error is never raised in
\* another way.
C24_DepthRejectIsImmediate ==
    [][/\ AtDeepest =>
              /\ Len(stack') = Len(stack)
              /\ Top' = [Top EXCEPT !.pc = "called"]
              /\ ret'.fn = "CheckURL" /\ ret'.st = "fail"
              /\ ret'.tries = 0 /\ ret'.delays = 0
              /\ last_error_' = MsgDepthExceeded \o Top.sub_urls[Top.idx]
              /\ io' = <<>>
              /\ att' = att
              /\ rng' = rng
       /\ (Running' /\ last_error_' # last_error_
              /\ StartsWith(last_error_', MsgDepthExceeded)) => AtDeepest]_vars

\* C24 happens: the list at the deepest level has had its sub-URL rejected.
C24_Witness ==
    /\ In("CheckListURL", "called")
    /\ Top.depth = MAX_LIST_RECURSION_DEPTH
    /\ ret.fn = "CheckURL"
    /\ StartsWith(last_error_, MsgDepthExceeded)
    /\ io = <<>>

\* GetFinalServer is at the head of its loop over url_list_ with an element
\* left, or has its CheckURL back with a failure.
AtEndpoint == In("GetFinalServer", "iter") /\ Top.idx <= Len(url_list_)
EndpointFailed == In("GetFinalServer", "called") /\ ~Succeeded(ret)

\* C25: within a pass GetFinalServer dispatches url_list_[1], url_list_[2],
\* ... in this order, each at depth 0 and without an event of its own; it
\* moves to the next endpoint only from a failed CheckURL of the current
\* one, and then last_error_ holds the message of that failure, stays as it
\* is while URL_INTERVAL is slept, and the next endpoint is the one behind.
C25_PassInOrder ==
    [][/\ AtEndpoint =>
              /\ io' = <<>>
              /\ Scan'.idx = Scan.idx /\ Scan'.pc = "called"
              /\ \/ Len(stack') = 2 /\ stack'[2].url = url_list_[Scan.idx]
                                     /\ stack'[2].depth = 0
                 \/ Len(stack') = 1 /\ ret'.fn = "CheckURL" /\ ret'.st = "fail"
       /\ EndpointFailed =>
              /\ last_error_ # <<>> /\ last_error_ = failure
              /\ last_error_' = last_error_
              /\ io' = <<SleepEvent(URL_INTERVAL)>>
              /\ Scan' = [Scan EXCEPT !.pc = "iter", !.idx = @ + 1]
       /\ (Running /\ Running' /\ Scan'.idx # Scan.idx) =>
              \/ EndpointFailed
              \/ Scan.idx = Len(url_list_) + 1 /\ Scan'.idx = 1
       /\ (~Running /\ Running') => Scan'.idx = 1 /\ Scan'.pc = "iter"]_vars

\* C25 happens: the second endpoint is dispatched after the first one failed
\* and the interval was slept.
C25_Witness ==
    /\ Len(stack) = 2 /\ Scan.idx = 2 /\ Scan.pc = "called"
    /\ Top.url = url_list_[2] /\ Top.depth = 0
    /\ pass = "first"
    /\ trace # Overflowed /\ trace # <<>>
    /\ trace[Len(trace)] = SleepEvent(URL_INTERVAL)

\* The pass is over: the loop over url_list_ has no element left.
PassOver == In("GetFinalServer", "iter") /\ Top.idx > Len(url_list_)

\* C26: when the loop over url_list_ has run out, GetFinalServer sets the
\* pass-level error, sleeps RETRY_INTERVAL seconds, once, and is at the first
\* endpoint again, still running, in the first pass and in every later one;
\* a pass starts at the first endpoint only, and a pass is over only behind
\* the last endpoint.
C26_NextPassFromStart ==
    [][/\ PassOver =>
              /\ io' = <<SleepEvent(RETRY_INTERVAL * 1000)>>
              /\ stack' = <<[Scan EXCEPT !.idx = 1]>>
              /\ last_error_' = MsgAllFailed
              /\ pass' = "later"
              /\ Scan.idx = Len(url_list_) + 1
       /\ (Running /\ Running' /\ (pass' # pass \/ Scan'.idx < Scan.idx)) =>
              PassOver
       /\ (Running /\ io' = <<SleepEvent(RETRY_INTERVAL * 1000)>>) => PassOver]_vars

\* C26 happens: the pass that followed the sleep between passes is over as
\* well, both endpoints having failed again.
C26_Witness ==
    /\ pass = "later"
    /\ PassOver
    /\ Len(url_list_) = 2
    /\ io = <<SleepEvent(URL_INTERVAL)>>
    /\ last_error_ # MsgAllFailed

\* C27: CheckListURL dispatches sub_urls[1], sub_urls[2], ... in this order;
\* it moves on only after the current sub-URL failed, and when a sub-URL
\* succeeds it returns true at once with that sub-URL's domain, dispatching
\* nothing more and sleeping nothing.
C27_FirstSubURLWins ==
    [][/\ (In("CheckListURL", "iter") /\ Top.idx <= Len(Top.sub_urls)) =>
              /\ io' = <<>>
              /\ \/ /\ Len(stack') = Len(stack) + 1
                    /\ Top'.url = Top.sub_urls[Top.idx]
                    /\ stack'[Len(stack)] = [Top EXCEPT !.pc = "called"]
                 \/ /\ stack' = SetTop([Top EXCEPT !.pc = "called"])
                    /\ ret'.fn = "CheckURL" /\ ret'.st = "fail"
       /\ (In("CheckListURL", "called") /\ Succeeded(ret)) =>
              /\ stack' = Pop
              /\ ret'.fn = "CheckListURL" /\ ret'.st = "ok"
              /\ ret'.domain = ret.domain
              /\ io' = <<>>
       /\ (In("CheckListURL", "called") /\ ~Succeeded(ret)) =>
              stack' = SetTop([Top EXCEPT !.pc = "iter", !.idx = @ + 1])
       /\ \A i \in 2..Len(stack) :
              (i <= Len(stack') /\ stack'[i].idx # stack[i].idx
                  /\ stack[i].fn = "CheckListURL") =>
                  /\ i = Len(stack)
                  /\ In("CheckListURL", "called") /\ ~Succeeded(ret)
       /\ (Len(stack') = Len(stack) + 1 /\ Top'.fn = "CheckListURL") =>
              Top'.idx = 1]_vars

\* C27 happens: the second sub-URL of the list verified after the first one
\* failed, and the list checker returned its domain.
C27_Witness ==
    /\ In("GetFinalServer", "called")
    /\ ret.fn = "CheckListURL" /\ ret.st = "ok"
    /\ ret.domain = GoodDomain
    /\ att.url = GoodURL
    /\ trace # Overflowed
    /\ Len(Sleeps(trace)) = MAX_RETRIES

\* C28: no step of a running call changes url_list_, and neither does the
\* start or the return of the call: url_list_ changes only in a successful
\* set_url_list or add_url, made while no call runs. A list checker whose
\* sub-URLs have all failed returns false with "All URLs in sub-list
\* failed: " and the URL of the list in last_error_.
C28_ListLeavesEndpointSet ==
    [][/\ (Running \/ Running') => url_list_' = url_list_
       /\ url_list_' # url_list_ =>
              api'.op \in {"set_url_list", "add_url"} /\ api'.rc = 0
       /\ (In("CheckListURL", "iter") /\ Top.idx > Len(Top.sub_urls)) =>
              /\ stack' = Pop
              /\ ret'.fn = "CheckListURL" /\ ret'.st = "fail"
              /\ last_error_' = MsgListAllFailed \o ActualURL(Top.url)
              /\ io' = <<>>]_vars

\* C28 happens: the list endpoint has failed with all its sub-URLs, none of
\* which is in url_list_.
C28_Witness ==
    /\ In("GetFinalServer", "called")
    /\ url_list_ = <<ListURL>>
    /\ ret.fn = "CheckListURL" /\ ret.st = "fail"
    /\ last_error_ = MsgListAllFailed \o ActualURL(ListURL)

\* What ParseURLList makes of the bodies a GET of actual_url can bring.
Fetched(actual_url) ==
    {ParsedBody[g.body] : g \in {b \in GetBehaviours(actual_url) : b.get = "ok"}}

\* C29: every activation of CheckListURL starts with no sub-URLs and issues
\* its own GET of the list before it dispatches anything; its sub-URLs are
\* the non-empty result of parsing what this GET brought, they are set in
\* that step and in no other, and a GET that fails or brings nothing ends
\* the activation. This holds in every pass and at every depth.
C29_FetchedEveryVisit ==
    [][/\ (Len(stack') = Len(stack) + 1 /\ Top'.fn = "CheckListURL") =>
              Top'.pc = "get" /\ Top'.sub_urls = <<>>
       /\ In("CheckListURL", "get") =>
              /\ Top.sub_urls = <<>>
              /\ io' = <<GetEvent(ActualURL(Top.url))>>
              /\ \/ /\ stack' = SetTop([Top EXCEPT !.pc = "iter",
                                                     !.sub_urls = Top'.sub_urls])
                    /\ Top'.sub_urls \in Fetched(ActualURL(Top.url))
                    /\ Top'.sub_urls # <<>>
                 \/ /\ stack' = Pop
                    /\ ret'.fn = "CheckListURL" /\ ret'.st = "fail"
       /\ \A i \in 1..Len(stack) :
              (i <= Len(stack') /\ stack'[i].sub_urls # stack[i].sub_urls) =>
                  i = Len(stack) /\ In("CheckListURL", "get")
       /\ (Running /\ Top.fn = "CheckListURL" /\ Top.pc # "get") =>
              Top.sub_urls \in Fetched(ActualURL(Top.url))]_vars

\* C29 happens: in a pass after the first one the list is fetched again.
C29_Witness ==
    /\ pass = "later"
    /\ In("CheckListURL", "iter")
    /\ Top.url = ListURL
    /\ io = <<GetEvent(ActualURL(ListURL))>>
    /\ Top.sub_urls = ParsedBody[ListBodyMarker]

\* The list that names itself is fetched again at each level it is reached.
C29_NestedVisit ==
    /\ pass = "first"
    /\ Len(stack) = 3
    /\ stack[2].url = CycleURL /\ stack[3].url = CycleURL
    /\ In("CheckListURL", "iter")
    /\ trace = <<GetEvent(ActualURL(CycleURL)), GetEvent(ActualURL(CycleURL))>>

\* C30: whenever the content holds a pair of markers, ParseURLList takes
\* URLs from between the first two markers only: the pieces of a non-blank
\* body, and nothing at all when the body is empty or blank; the lines
\* outside the markers are never read.
C30_FallbackOnlyWithoutMarkers ==
    (applied = "ParseURLList" /\ HasMarkerPair(input.value)) =>
        output = IF Blank(Body(input.value)) THEN <<>>
                 ELSE HttpPieces(Body(input.value), "|")

\* Two markers with nothing between them, and a URL on the line behind them
\* in the result.
C30_TakenFromOutside ==
    /\ applied = "ParseURLList"
    /\ input.value = marker \o marker \o <<"\r", "\n">> \o HTTP \o <<"a">>
    /\ output = <<HTTP \o <<"a">>>>

\* C31: a list checker whose GET brought a body in which ParseURLList finds
\* no URL returns false in that very step with "Sub-list empty or parse
\* failed: " and the fetched URL in last_error_: the GET is the only event
\* of the whole call, no attempt is made, no nonce is drawn, and the loop
\* over the sub-URLs is never entered with an empty list. The message is
\* raised in no other way.
C31_EmptyListFails ==
    [][/\ In("CheckListURL", "get") =>
              /\ io = <<>> /\ last_error_ = <<>>
              /\ io' = <<GetEvent(ActualURL(Top.url))>>
              /\ att' = att /\ rng' = rng
              /\ Len(stack') = Len(stack) => Top'.sub_urls # <<>>
              /\ last_error_' = MsgListEmpty \o ActualURL(Top.url) =>
                     /\ <<>> \in Fetched(ActualURL(Top.url))
                     /\ stack' = Pop
                     /\ ret' = Returned("CheckListURL", FALSE, <<>>, Top)
                     /\ ret'.tries = 0 /\ ret'.delays = 0
                     /\ failure' = last_error_'
              /\ last_error_' = <<>> => Len(stack') = Len(stack)
       /\ (Running /\ Top.fn = "CheckListURL" /\ Top.pc # "get") =>
              Top.sub_urls # <<>>
       /\ (Running' /\ last_error_' # last_error_
              /\ StartsWith(last_error_', MsgListEmpty)) =>
                  In("CheckListURL", "get")]_vars

\* C31 happens: the list was fetched, its body held no URL, and the list
\* checker is back in GetFinalServer with the failure, the GET being the
\* only event of the call so far.
C31_Witness ==
    /\ In("GetFinalServer", "called")
    /\ ret.fn = "CheckListURL" /\ ret.st = "fail"
    /\ ParsedBody[ListBodyJunk] = <<>>
    /\ last_error_ = MsgListEmpty \o ActualURL(ListURL)
    /\ trace = <<GetEvent(ActualURL(ListURL))>>
    /\ io = trace

\* C32: CheckURL for an endpoint that ends in '#' and has nothing in front
\* of it returns false with an invalid-list-URL error before the GET, in
\* both detectors.
C32_LoneHashRejected ==
    (/\ applied \in {"CheckURL", "ClientCheckURL"}
     /\ IsListURL(input.value)
     /\ ActualURL(input.value) = <<>>) =>
        /\ output.rejected
        /\ output.error \in {MsgListTooShort, MsgListEmptyURL}

\* The detector of src/client has entered CheckListURL for "#" and is at
\* its GET, of the empty URL.
C32_FetchesEmptyURL ==
    /\ applied = "ClientCheckURL"
    /\ input.value = HashURL
    /\ ~output.rejected
    /\ output.frame.fn = "CheckListURL" /\ output.frame.pc = "get"
    /\ ActualURL(output.frame.url) = <<>>

\* The legacy detector rejects "#" as too short.
C32_LegacyRejects ==
    /\ applied = "CheckURL"
    /\ input.value = HashURL
    /\ output = Rejected(MsgListTooShort)

\* The endpoint ends in '#'.
EndsInHash(url) == Len(url) > 0 /\ url[Len(url)] = "#"

\* The GET of the list failed: last_error_ says so.
GetFailed(error, actual_url) ==
    error \in {MsgGetFailed \o actual_url \o MsgSep \o TransportError,
               MsgGetException \o actual_url}

\* C33: the endpoints that end in '#', and only they, are handled by
\* CheckListURL. An activation of it issues its GET in one step, to the URL
\* without the '#', and never comes back to the GET; a GET comes from no
\* other step, a list checker never issues a POST, and no POST goes to a URL
\* ending in '#'. When the GET fails the activation returns false in that
\* step with the transport error in last_error_, having dispatched nothing.
C33_OneGetPerVisit ==
    [][/\ \A i \in 1..Len(stack) :
              /\ stack[i].fn = "CheckListURL" => EndsInHash(stack[i].url)
              /\ stack[i].fn = "CheckNormalURL" => ~EndsInHash(stack[i].url)
              /\ (i <= Len(stack') /\ stack'[i].pc = "get") =>
                     stack[i].pc = "get"
       /\ In("CheckListURL", "get") =>
              /\ io' = <<GetEvent(ActualURL(Top.url))>>
              /\ Top.idx = 1 /\ Top.sub_urls = <<>>
              /\ \/ stack' = Pop /\ ret'.fn = "CheckListURL" /\ ret'.st = "fail"
                 \/ /\ Len(stack') = Len(stack)
                    /\ Top'.pc = "iter" /\ Top'.idx = 1
                    /\ last_error_' = <<>>
              /\ GetFailed(last_error_', ActualURL(Top.url)) =>
                     /\ stack' = Pop
                     /\ ret' = Returned("CheckListURL", FALSE, <<>>, Top)
                     /\ failure' = last_error_'
       /\ (Running /\ Top.fn = "CheckListURL") => Posts(io') = <<>>
       /\ (\E k \in 1..Len(io') : io'[k].op = "GET") =>
              In("CheckListURL", "get")
       /\ \A k \in 1..Len(io') :
              io'[k].op = "POST" => ~EndsInHash(io'[k].url)]_vars

\* C33 happens: the GET of the list failed and the list checker is back in
\* GetFinalServer with the transport error, that GET being the only event.
C33_Witness ==
    /\ In("GetFinalServer", "called")
    /\ url_list_[Top.idx] = ListURL
    /\ ret.fn = "CheckListURL" /\ ret.st = "fail"
    /\ last_error_ =
           MsgGetFailed \o ActualURL(ListURL) \o MsgSep \o TransportError
    /\ trace = <<GetEvent(ActualURL(ListURL))>>

\* The latest attempt ended before its request was sent, with this error.
EndedBefore(error) ==
    att.res = AttemptFailed(error \o att.url, <<>>, att.generated, <<>>)

\* C34: an attempt issues no POST or one POST to its endpoint, and nothing
\* else. When GenerateRandom returns an empty value, ToJson fails on the
\* payload or EncryptWithPublicKey returns an empty ciphertext, it issues
\* none and fails with the error of that step; a failed attempt leaves its
\* own error in last_error_ and gives no domain.
C34_AtMostOnePost ==
    att.made =>
        /\ att.res.io \in {<<>>, <<PostEvent(att.url)>>}
        /\ att.env.gen = "empty" => EndedBefore(MsgRandomEmpty)
        /\ (att.env.gen = "ok" /\ att.env.json1 = "throw") =>
               EndedBefore(MsgPayloadJson)
        /\ (att.env.gen = "ok" /\ att.env.json1 = "ok"
               /\ att.env.enc = "empty") => EndedBefore(MsgEncryptEmpty)
        /\ ~att.res.ok => att.res.domain = <<>> /\ att.res.error # <<>>
        /\ ret.fn = "CheckNormalURLOnce" =>
               /\ io = att.res.io
               /\ ret.st = (IF att.res.ok THEN "ok" ELSE "fail")
               /\ ret.domain = att.res.domain
               /\ ~att.res.ok => last_error_ = att.res.error

\* C34 happens: the encryption has given an empty ciphertext in the second
\* attempt on the endpoint, after an attempt whose payload could not be
\* serialized: no POST has been issued in the call so far.
C34_Witness ==
    /\ In("CheckNormalURL", "attempted")
    /\ Top.idx = 2
    /\ att.env.enc = "empty"
    /\ ret.fn = "CheckNormalURLOnce" /\ ret.st = "fail"
    /\ last_error_ = MsgEncryptEmpty \o WildURL
    /\ trace = <<SleepEvent(RETRY_DELAY_MS)>>

\* C35: within a call of get_final_server no POST is issued while an
\* earlier POST of the call has not been followed by a sleep: a step issues
\* at most one POST, and none when the latest of the POSTs and sleeps before
\* it is a POST. A call starts with no POST behind it, and what follows a
\* POST that did not verify is a sleep of RETRY_DELAY_MS before the retry, of
\* URL_INTERVAL before the next endpoint or sub-endpoint, and of
\* URL_INTERVAL and RETRY_INTERVAL before the next pass.
C35_SleepBetweenPosts ==
    [][/\ Len(Posts(io')) <= 1
       /\ (Running /\ posted) => Posts(io') = <<>>
       /\ (~Running /\ Running') => ~posted'
       /\ posted' = IF Posts(io') # <<>> THEN TRUE
                    ELSE IF Sleeps(io') # <<>> THEN FALSE
                    ELSE posted /\ Running
       /\ (Running /\ Top.pc \in {"attempt", "get"}) => ~posted
       /\ PassOver => ~posted]_vars

\* C35 happens: in a pass after the first one a sub-endpoint of the list has
\* been posted to, the sleeps between the passes behind it.
C35_Witness ==
    /\ pass = "later"
    /\ posted
    /\ In("CheckNormalURL", "attempted")
    /\ Top.depth = 1 /\ Top.idx = 2
    /\ io = <<PostEvent(Top.url)>>
    /\ url_list_ = <<ListURL, WildURL>>

\* C36: a call of the dispatcher ends with at most MAX_LIST_RECURSION_DEPTH
\* + 1 lists open one inside another, whatever the lists hold, a list that
\* names itself included: in the detector of src/client in every world, and
\* in the running detector at every moment.
C36_NestingBounded ==
    /\ applied = "ClientGetFinalServer" =>
           output.lists <= MAX_LIST_RECURSION_DEPTH + 1
    /\ Len(SelectSeq(stack, LAMBDA f : f.fn = "CheckListURL"))
           <= MAX_LIST_RECURSION_DEPTH + 1

\* The detector of src/client has followed the list that names itself
\* through more than MAX_LIST_RECURSION_DEPTH + 1 levels, a GET at each.
C36_CycleFollowed ==
    /\ applied = "ClientGetFinalServer"
    /\ input.value.urls = <<CycleURL, GoodURL>>
    /\ output.lists > MAX_LIST_RECURSION_DEPTH + 1
    /\ \A k \in 1..(MAX_LIST_RECURSION_DEPTH + 2) :
           output.io[k] = GetEvent(ActualURL(CycleURL))

\* C37: when passgfw_get_final_server has returned a domain, last_error_ is
\* empty; and so is last_error_ of the detector of src/client after a pass
\* that found a domain.
C37_ClearedAtReturn ==
    /\ Found => last_error_ = <<>>
    /\ (applied = "ClientGetFinalServer" /\ output.ok) => output.error = <<>>

\* The call has returned the domain verified by the second attempt on its
\* endpoint, and last_error_ still holds the message of the first attempt.
C37_StaleAtReturn ==
    /\ Found
    /\ api.written
    /\ att.res.ok /\ att.url = WildURL
    /\ ret = NoRet
    /\ last_error_ = MsgPostFailed \o WildURL \o MsgSep \o TransportError
    /\ last_error_ = failure
    /\ trace = <<PostEvent(WildURL), SleepEvent(RETRY_DELAY_MS),
                 PostEvent(WildURL)>>

\* C38: passgfw_set_url_list leaves in url_list_ the non-NULL entries of its
\* array, none when all are NULL. A call of get_final_server on an empty
\* url_list_ stays in GetFinalServer for ever: each of its steps is a pass
\* that sets last_error_ to the all-failed message and sleeps RETRY_INTERVAL
\* seconds, no checker is entered, no attempt made, no GET or POST issued,
\* and the binding never returns.
C38_EmptySetNeverReturns ==
    [][/\ (api.op = "set_url_list" /\ api.rc = 0) =>
              url_list_ = NonNullEntries(given.urls, 0, given.count)
       /\ (Running /\ url_list_ = <<>>) =>
              /\ stack = <<Frame("GetFinalServer", <<>>, 0, "iter")>>
              /\ ~api.done /\ ~posted /\ ~att.made
              /\ trace \in {<<>>, Overflowed}
              /\ io \in {<<>>, <<SleepEvent(RETRY_INTERVAL * 1000)>>}
              /\ stack' = stack
              /\ api' = api
              /\ url_list_' = <<>>
              /\ io' = <<SleepEvent(RETRY_INTERVAL * 1000)>>
              /\ last_error_' = MsgAllFailed
              /\ pass' = "later"]_vars

\* C38 happens: the host has set a list of NULL entries only and called
\* get_final_server, which has been through a pass and is still running.
C38_Witness ==
    /\ Running
    /\ url_list_ = <<>>
    /\ NonNullEntries(<<NullPtr>>, 0, 1) = <<>>
    /\ pass = "later"
    /\ last_error_ = MsgAllFailed
    /\ io = <<SleepEvent(RETRY_INTERVAL * 1000)>>
    /\ trace = Overflowed

\* C39: passgfw_set_url_list returns -1 exactly when the handle or the
\* array is NULL or the count is not positive, passgfw_add_url exactly when
\* the handle or the URL is NULL, and such a call leaves url_list_ and
\* last_error_ as they were; passgfw_get_last_error leaves them as they were
\* whether it returns 0 or -1.
C39_RejectedCallsChangeNothing ==
    [][/\ api'.op = "set_url_list" =>
              /\ api'.rc = (IF ~given'.detector \/ ~given'.urls_given
                                  \/ given'.count <= 0 THEN -1 ELSE 0)
              /\ api'.rc = -1 => url_list_' = url_list_
              /\ last_error_' = last_error_
       /\ api'.op = "add_url" =>
              /\ api'.rc = (IF ~given'.detector \/ given'.url = NullPtr
                            THEN -1 ELSE 0)
              /\ api'.rc = -1 => url_list_' = url_list_
              /\ last_error_' = last_error_
       /\ api'.op = "get_last_error" =>
              /\ api'.rc \in {0, -1}
              /\ url_list_' = url_list_
              /\ last_error_' = last_error_]_vars

\* C39 happens: a set_url_list with a count of 0 has returned -1 on a
\* detector that holds a list set by the host and the error of an earlier
\* call.
C39_Witness ==
    /\ api.op = "set_url_list" /\ api.rc = -1
    /\ given.detector /\ given.urls_given /\ given.count = 0
    /\ url_list_ = <<WildURL>>
    /\ last_error_ # <<>>

\* The network calls among events in order, the sleeps dropped and a call
\* that repeats the one before it counted once.
RECURSIVE Visits(_)
Visits(events) ==
    IF events = <<>> THEN <<>>
    ELSE LET e == events[Len(events)]
             before == Visits(SubSeq(events, 1, Len(events) - 1))
         IN  IF e.op = "SLEEP" THEN before
             ELSE IF before # <<>> /\ before[Len(before)] = e THEN before
             ELSE Append(before, e)

\* The detector of src/client has made its pass over the world and followed
\* no more than MAX_LIST_RECURSION_DEPTH lists one inside another.
Compared ==
    /\ input.kind = "world"
    /\ applied = "ClientGetFinalServer"
    /\ output.lists <= MAX_LIST_RECURSION_DEPTH

\* C40: in a world where every URL does the same at every visit, with lists
\* nested no deeper than MAX_LIST_RECURSION_DEPTH, no empty or "#" endpoint
\* and no oversize client data, the two variants agree: each endpoint and
\* sub-endpoint the legacy detector has checked has the result and the
\* domain the detector of src/client gets for it, the network calls of the
\* legacy detector are those of the other in the same order, a domain the
\* legacy detector returns is the one the other returns, and the legacy
\* detector goes into a further pass only if the pass of the other fails.
C40_VariantsAgree ==
    Compared =>
        /\ \A fn \in {"GetFinalServer", "CheckListURL"} :
              In(fn, "called") =>
                  LET url == IF fn = "GetFinalServer" THEN url_list_[Top.idx]
                             ELSE Top.sub_urls[Top.idx]
                      c == ClientCheck(url, input.value, network_client_, 0)
                  IN  /\ Succeeded(ret) = c.ok
                      /\ c.ok => ret.domain = c.domain
        /\ (pass = "first" /\ trace # Overflowed) =>
              StartsWith(Visits(output.io), Visits(trace))
        /\ Found =>
              /\ output.ok
              /\ api.out = CopyToBuffer(output.domain, api.size)
        /\ pass = "later" => ~output.ok

\* C40 happens: both variants have returned the good domain of a world
\* whose first endpoint is a list with a second list inside it, after a
\* sub-endpoint of each list had failed.
C40_Witness ==
    /\ Compared
    /\ Found
    /\ input.value.urls = <<ListURL, WildURL>>
    /\ output.lists = 2
    /\ output.ok
    /\ api.out = GoodDomain
====
